---- MODULE Spec2Model ----
(***************************************************************************)
(* A state-machine model of the agent workflow runtime:                    *)
(*   - the EventStream (offset counter, history, broadcast channel) with   *)
(*     its spawned append tasks (src/src/event.rs),                        *)
(*   - the agent tool loop and its ToolCallTracker (src/src/agent.rs,      *)
(*     src/src/tool_loop_detection.rs),                                    *)
(*   - the Runtime, its steps and the shared WorkflowContext               *)
(*     (src/src/runtime.rs, src/src/step_impls.rs, src/src/context.rs),    *)
(*   - the context-manager strategies (src/src/context_strategies.rs).     *)
(* Each subsystem has its own specification over the shared variables.     *)
(***************************************************************************)
EXTENDS Integers, Sequences, FiniteSets, TLC

VARIABLES
    next_offset,   \* EventStream.next_offset: the next offset to assign
    history,       \* EventStream.history: Vec<Event>, in push order
    tasks,         \* the append tasks spawned so far, in spawn order
    rx,            \* the broadcast receiver held by the subscriber
    client,        \* the reconnecting subscriber (bin/reconnection_demo.rs)
    agent,         \* one run of Agent::execute_with_events
    runs,          \* the call stacks of the Runtime::execute calls in progress
    contexts,      \* the WorkflowContext objects, by reference
    ctxlog,        \* the reads and writes of context histories, in order
    private_events,\* events sent to streams of Runtimes created inside steps
    pruner,        \* a context manager applied to a history
    retry,         \* one call of RetryPolicy::execute
    tracker,       \* a ToolCallTracker driven directly through its methods
    checkpoint,    \* a WorkflowContext serialised and deserialised
    timeout,       \* one call of TimeoutConfig::execute
    locking,       \* the locks and the tasks that take them
    llama          \* the tool calls one LlamaClient::chat_stream call accumulates

evVars == <<next_offset, history, tasks, rx, client>>

rtVars == <<runs, contexts, ctxlog, private_events>>

unitVars == <<retry, tracker, checkpoint, timeout, locking, llama>>

nonEvVars == <<agent, rtVars, pruner, unitVars>>

nonAgVars == <<evVars, rtVars, pruner, unitVars>>

vars == <<next_offset, history, tasks, rx, client, agent, runs, contexts, ctxlog,
          private_events, pruner, retry, tracker, checkpoint, timeout, locking, llama>>

(***************************************************************************)
(* Bounds of the model.                                                    *)
(***************************************************************************)
MaxAppends == 2
MaxIterCfg == 2
MaxToolCalls == 2
MaxSteps == 2
MaxPlainSteps == 1
MaxHistory == 3
MaxAttemptsCfg == 2
MaxRecords == 2
MaxCheckpointHistory == 2
MaxSharedSteps == 2
MaxFragments == 3
MaxIndex == 1

(***************************************************************************)
(* The idle values of the subsystems a specification does not exercise.    *)
(***************************************************************************)
AgentIdle == [pc |-> "idle"]

RuntimeIdle ==
    /\ runs = <<>>
    /\ contexts = <<>>
    /\ ctxlog = <<>>
    /\ private_events = <<>>

PrunerIdle == [pc |-> "idle"]

RetryIdle == [pc |-> "idle"]

TrackerIdle == [pc |-> "idle"]

CheckpointIdle == [pc |-> "idle"]

TimeoutIdle == [pc |-> "idle"]

LockingIdle == [pc |-> "idle"]

LlamaIdle == [pc |-> "idle"]

UnitsIdle ==
    /\ retry = RetryIdle
    /\ tracker = TrackerIdle
    /\ checkpoint = CheckpointIdle
    /\ timeout = TimeoutIdle
    /\ locking = LockingIdle
    /\ llama = LlamaIdle

(***************************************************************************)
(* Helpers.                                                                *)
(***************************************************************************)
Range(s) == {s[i] : i \in 1..Len(s)}

None == "none"

NoValue == [kind |-> "none"]

(***************************************************************************)
(* Event::validate_component_id.  A component id is modelled by the list   *)
(* of parts that split(':') yields; the empty string yields <<"">>.        *)
(***************************************************************************)
NumericParts == {"0", "1", "2", "3"}

IsEmptyId(cid) == cid = <<"">>

StartsWithSystem(cid) == Len(cid) >= 2 /\ cid[1] = "system"

validate_component_id(scope, cid) ==
    IF IsEmptyId(cid) THEN FALSE
    ELSE CASE scope = "Workflow"     -> TRUE
           [] scope = "WorkflowStep" ->
                 Len(cid) = 3 /\ cid[2] = "step" /\ cid[3] \in NumericParts
           [] scope = "Agent"        -> TRUE
           [] scope = "LlmRequest"   ->
                 Len(cid) = 3 /\ cid[2] = "llm" /\ cid[3] \in NumericParts
           [] scope = "Tool"         -> TRUE
           [] scope = "System"       -> StartsWithSystem(cid)

(***************************************************************************)
(* EventStream::append_with_parent.  The call only spawns a task; the task *)
(* takes the offset under the next_offset lock, builds the event (which    *)
(* validates the component id), pushes it under the history lock and then  *)
(* sends it on the broadcast channel.  Tasks run on the worker threads of  *)
(* the runtime, so their three steps interleave freely.                    *)
(***************************************************************************)
NewTask(scope, etype, cid, wf, parent, data) ==
    [pc |-> "spawned", offset |-> -1, scope |-> scope, event_type |-> etype,
     component_id |-> cid, workflow_id |-> wf, parent_workflow_id |-> parent,
     data |-> data]

EventOf(t) ==
    [offset |-> t.offset, scope |-> t.scope, event_type |-> t.event_type,
     component_id |-> t.component_id, workflow_id |-> t.workflow_id,
     parent_workflow_id |-> t.parent_workflow_id, data |-> t.data]

OffsetAfterTakeStuck(cur) == cur

OffsetAfterTake(cur) == cur + 1

ChannelCapacity == 1000

\* broadcast::Sender::send: every live receiver gets the event; a receiver
\* that lags past the capacity loses its oldest undelivered event.
Broadcast(r, e) ==
    IF ~r.active THEN r
    ELSE [r EXCEPT !.queue =
             IF Len(r.queue) >= ChannelCapacity
             THEN Append(Tail(r.queue), e) ELSE Append(r.queue, e)]

TaskTakeOffset(i) ==
    /\ tasks[i].pc = "spawned"
    /\ tasks' = [tasks EXCEPT ![i].pc = "have_offset", ![i].offset = next_offset]
    /\ next_offset' = OffsetAfterTake(next_offset)
    /\ UNCHANGED <<history, rx, client, nonEvVars>>

TaskStore(i) ==
    /\ tasks[i].pc = "have_offset"
    /\ IF validate_component_id(tasks[i].scope, tasks[i].component_id)
       THEN /\ history' = Append(history, EventOf(tasks[i]))
            /\ tasks' = [tasks EXCEPT ![i].pc = "stored"]
       ELSE /\ tasks' = [tasks EXCEPT ![i].pc = "failed"]
            /\ UNCHANGED history
    /\ UNCHANGED <<next_offset, rx, client, nonEvVars>>

TaskSend(i) ==
    /\ tasks[i].pc = "stored"
    /\ rx' = Broadcast(rx, EventOf(tasks[i]))
    /\ tasks' = [tasks EXCEPT ![i].pc = "done"]
    /\ UNCHANGED <<next_offset, history, client, nonEvVars>>

AppendTaskStep ==
    \/ \E i \in 1..Len(tasks) : TaskTakeOffset(i)
    \/ \E i \in 1..Len(tasks) : TaskStore(i)
    \/ \E i \in 1..Len(tasks) : TaskSend(i)

\* EventStream::from_offset: the events of the history with offset >= o,
\* in history order.
from_offset(o) == SelectSeq(history, LAMBDA e : e.offset >= o)

current_offset == next_offset

(***************************************************************************)
(* Producers of the event-stream specification: callers of append with a   *)
(* scope and a component id of their choice.                               *)
(***************************************************************************)
AppendInputs ==
    { <<"Workflow", <<"wf">> >>,
      <<"WorkflowStep", <<"wf", "step", "0">> >>,
      <<"WorkflowStep", <<"step_0">> >>,
      <<"LlmRequest", <<"agent", "llm", "x">> >>,
      <<"System", <<"system", "boot">> >>,
      <<"Agent", <<"">> >> }

CallAppend ==
    /\ client.pc # "off"
    /\ Len(tasks) < MaxAppends
    /\ \E inp \in AppendInputs :
          tasks' = Append(tasks, NewTask(inp[1], "Started", inp[2], "wf", None, NoValue))
    /\ UNCHANGED <<next_offset, history, rx, client, nonEvVars>>

(***************************************************************************)
(* The reconnecting subscriber of bin/reconnection_demo.rs: it listens,    *)
(* remembers the offset of the last event it received, and on reconnect    *)
(* replays from_offset(last_offset + 1) and then subscribes again.         *)
(***************************************************************************)
ClientRecv ==
    /\ client.pc \in {"live", "resubscribed"}
    /\ rx.active /\ rx.queue # <<>>
    /\ rx' = [rx EXCEPT !.queue = Tail(rx.queue)]
    /\ client' = [client EXCEPT
                    !.last_offset = Head(rx.queue).offset,
                    !.observed = TRUE,
                    !.got = IF client.pc = "resubscribed"
                            THEN client.got \cup {Head(rx.queue).offset}
                            ELSE client.got]
    /\ UNCHANGED <<next_offset, history, tasks, nonEvVars>>

ClientDisconnect ==
    /\ client.pc = "live"
    /\ client.observed
    /\ rx' = [active |-> FALSE, queue |-> <<>>]
    /\ client' = [client EXCEPT !.pc = "down"]
    /\ UNCHANGED <<next_offset, history, tasks, nonEvVars>>

ClientReplay ==
    /\ client.pc = "down"
    /\ LET missed == from_offset(client.last_offset + 1)
       IN client' = [client EXCEPT
                       !.pc = "replayed",
                       !.L = client.last_offset,
                       !.replay = {missed[k].offset : k \in 1..Len(missed)},
                       !.last_offset = IF missed = <<>> THEN client.last_offset
                                       ELSE missed[Len(missed)].offset]
    /\ UNCHANGED <<next_offset, history, tasks, rx, nonEvVars>>

ClientSubscribe ==
    /\ client.pc = "replayed"
    /\ rx' = [active |-> TRUE, queue |-> <<>>]
    /\ client' = [client EXCEPT !.pc = "resubscribed"]
    /\ UNCHANGED <<next_offset, history, tasks, nonEvVars>>

(***************************************************************************)
(* ToolCallTracker (tool_loop_detection.rs).  Tool-call arguments arrive   *)
(* as a JSON string.  The strings of the model and what serde_json makes   *)
(* of them:                                                                *)
(*   "bad"        not JSON at all                                          *)
(*   "[1]"        JSON, but not an object                                  *)
(*   "{}"         the empty object                                         *)
(*   "{a:1}"      an object with one key                                   *)
(*   "{a:1,b:2}"  an object with two keys                                  *)
(***************************************************************************)
ArgStrings == {"bad", "[1]", "{}", "{a:1}", "{a:1,b:2}"}

IsJson(s) == s # "bad"

IsJsonObject(s) == s \in {"{}", "{a:1}", "{a:1,b:2}"}

ObjectOf(s) ==
    CASE s = "{a:1}"     -> {<<"a", 1>>}
      [] s = "{a:1,b:2}" -> {<<"a", 1>>, <<"b", 2>>}
      [] OTHER           -> {}

\* agent.rs: serde_json::from_str(..).unwrap_or(json!({})) followed by
\* as_object().map(collect).unwrap_or_default(): what is not a JSON object
\* becomes the empty map.
TrackerArgs(s) == IF IsJson(s) /\ IsJsonObject(s) THEN ObjectOf(s) ELSE {}

\* The iteration orders of a HashMap holding the entries `m`: each HashMap
\* has its own RandomState, so two maps with equal entries need not iterate
\* in the same order.
IterationOrders(m) ==
    {o \in [1..Cardinality(m) -> m] :
        \A i, j \in 1..Cardinality(m) : i # j => o[i] # o[j]}

\* ToolCallTracker::hash_args: md5 of serde_json::to_string(args), which
\* writes the entries in the map's iteration order.  The digest is modelled
\* by the serialised entry list itself (md5 collisions are left out); the
\* value is the set of digests the call can return.
hash_args(m) == IterationOrders(m)

NoResult == [kind |-> "none"]

\* ToolCallTracker::record_call, with the digest the call computed.
record_call(tr, name, h, result) ==
    Append(tr, [name |-> name, hash |-> h, result |-> result])

\* ToolCallTracker::check_for_loop, with the digest the call computed: the
\* result of the first recorded call with this name and digest, or NoResult.
Matches(tr, name, h) == {k \in 1..Len(tr) : tr[k].name = name /\ tr[k].hash = h}

FirstOf(S) == CHOOSE k \in S : \A j \in S : k <= j

check_for_loop(tr, name, h) ==
    IF Matches(tr, name, h) = {} THEN NoResult
    ELSE tr[FirstOf(Matches(tr, name, h))].result

\* ToolLoopDetectionConfig::get_message: the default text names the tool and
\* quotes the previous result; a custom text does so only through its
\* {tool_name} and {previous_result} placeholders.
get_message(custom, name, prev) ==
    CASE custom = None           -> [kind |-> "loop", tool |-> name, prev |-> prev]
      [] custom = "placeholders" -> [kind |-> "loop", tool |-> name, prev |-> prev]
      [] custom = "plain"        -> [kind |-> "loop", tool |-> None, prev |-> NoResult]

(***************************************************************************)
(* Agent::execute_with_events (agent.rs), with an LLM client configured.   *)
(* The model's responses are the inputs: an error, a final text, or a list *)
(* of tool calls.                                                          *)
(***************************************************************************)
ToolNames == {"search", "calc"}

\* The tools the registry holds; "calc" is asked for but not registered.
RegisteredTools == {"search"}

LoopConfigs ==
    { [some |-> FALSE, enabled |-> FALSE, custom |-> None],
      [some |-> TRUE, enabled |-> FALSE, custom |-> None],
      [some |-> TRUE, enabled |-> TRUE, custom |-> None],
      [some |-> TRUE, enabled |-> TRUE, custom |-> "placeholders"],
      [some |-> TRUE, enabled |-> TRUE, custom |-> "plain"] }

AgentConfigs ==
    [max_tool_iterations : 0..MaxIterCfg, tools : BOOLEAN,
     tool_loop_detection : LoopConfigs]

NewAgent(cfg) ==
    [pc |-> "start", cfg |-> cfg, iteration |-> 0, llm_calls |-> 0,
     messages |-> <<>>, pending |-> <<>>, tracker |-> <<>>,
     has_tracker |-> FALSE, registry_calls |-> <<>>, executed |-> <<>>,
     emitted |-> 0, events |-> <<>>, error |-> None, llm_error |-> None,
     error_message |-> None]

\* Line 195: format!("Maximum tool iterations ({}) exceeded", max).
LimitMessage(max) == "Maximum tool iterations (" \o ToString(max) \o ") exceeded"

IterationLimitExceededLate(iteration, max) == iteration > max + 1

IterationLimitExceeded(iteration, max) == iteration > max

\* Lines 157-188: the request starts as [system prompt, user message]; the
\* tracker exists iff a loop-detection config is present.
AgentStart ==
    /\ agent.pc = "start"
    /\ agent' = [agent EXCEPT
                   !.pc = "loop",
                   !.messages = << [role |-> "system"], [role |-> "user"] >>,
                   !.has_tracker = agent.cfg.tool_loop_detection.some,
                   !.events = Append(agent.events, "AgentProcessing")]
    /\ UNCHANGED nonAgVars

\* Lines 190-220: the top of the loop.
AgentIterate ==
    /\ agent.pc = "loop"
    /\ IF IterationLimitExceeded(agent.iteration + 1, agent.cfg.max_tool_iterations)
       THEN agent' = [agent EXCEPT !.iteration = agent.iteration + 1,
                                   !.pc = "failed", !.error = "max_iterations",
                                   !.error_message =
                                       LimitMessage(agent.cfg.max_tool_iterations)]
       ELSE agent' = [agent EXCEPT
                        !.iteration = agent.iteration + 1,
                        !.pc = "calling",
                        !.events = Append(agent.events, "AgentLlmRequestStarted")]
    /\ UNCHANGED nonAgVars

\* The tool calls a response can carry: at most MaxToolCalls over the run.
ToolCallLists(budget) ==
    UNION {[1..n -> ToolNames \X ArgStrings] : n \in 1..budget}

MakeCalls(list, base) ==
    [k \in 1..Len(list) |->
        [id |-> base + k, name |-> list[k][1], arguments |-> list[k][2]]]

\* The texts of the errors chat_stream can return (e.to_string()).
LlmErrorTexts == {"network error", "rate limited"}

LlmFailureEventsSwapped == <<"AgentFailed", "AgentLlmRequestFailed">>

\* Lines 411-440: the two events of a failed model call, in emission order.
LlmFailureEvents == <<"AgentLlmRequestFailed", "AgentFailed">>

\* Lines 442-445: format!("LLM call failed: {}", e).
LlmFailedMessage(e) == "LLM call failed: " \o e

\* Lines 410-447: chat_stream returned an error.
LlmFails ==
    /\ agent.pc = "calling"
    /\ \E e \in LlmErrorTexts :
          agent' = [agent EXCEPT
                      !.llm_calls = agent.llm_calls + 1,
                      !.pc = "failed", !.error = "llm",
                      !.llm_error = e,
                      !.error_message = LlmFailedMessage(e),
                      !.events = agent.events \o LlmFailureEvents]
    /\ UNCHANGED nonAgVars

\* Lines 251-273 and 373-408: a response without tool calls (None or an
\* empty list) is the final answer.
LlmFinal ==
    /\ agent.pc = "calling"
    /\ \E empty_list \in BOOLEAN :
          agent' = [agent EXCEPT
                      !.llm_calls = agent.llm_calls + 1,
                      !.pc = "completed",
                      !.events = agent.events \o
                                    <<"AgentLlmRequestCompleted", "AgentCompleted">>]
    /\ UNCHANGED nonAgVars

\* Lines 269-283: a response with tool calls; the assistant message goes
\* into the request and the calls are handled one by one.
LlmToolCalls ==
    /\ agent.pc = "calling"
    /\ agent.emitted < MaxToolCalls
    /\ \E list \in ToolCallLists(MaxToolCalls - agent.emitted) :
          LET calls == MakeCalls(list, agent.emitted)
          IN agent' = [agent EXCEPT
                         !.llm_calls = agent.llm_calls + 1,
                         !.pc = "dispatch",
                         !.emitted = agent.emitted + Len(list),
                         !.pending = calls,
                         !.messages = Append(agent.messages,
                                        [role |-> "assistant", tool_calls |-> calls]),
                         !.events = Append(agent.events, "AgentLlmRequestCompleted")]
    /\ UNCHANGED nonAgVars

ToolMessageNoId(id, content) ==
    [role |-> "tool", tool_call_id |-> 0, content |-> content]

\* ChatMessage::tool_result(&tool_call.id, &content) (llm/types.rs 71).
ToolMessage(id, content) ==
    [role |-> "tool", tool_call_id |-> id, content |-> content]

AfterCall(a) ==
    [a EXCEPT !.pending = Tail(a.pending),
              !.pc = IF Tail(a.pending) = <<>> THEN "loop" ELSE "dispatch"]

LoopCheckOn(a) ==
    a.has_tracker /\ a.cfg.tool_loop_detection.some /\ a.cfg.tool_loop_detection.enabled

\* Lines 287-329: the tracker knows the call; the tool is not run and the
\* loop message is pushed as the tool result.
ToolCallSuppressed ==
    /\ agent.pc = "dispatch"
    /\ LoopCheckOn(agent)
    /\ LET tc == Head(agent.pending)
       IN \E h \in hash_args(TrackerArgs(tc.arguments)) :
            /\ check_for_loop(agent.tracker, tc.name, h) # NoResult
            /\ agent' = AfterCall([agent EXCEPT
                  !.events = Append(agent.events, "AgentToolLoopDetected"),
                  !.messages = Append(agent.messages,
                      ToolMessage(tc.id,
                          get_message(agent.cfg.tool_loop_detection.custom, tc.name,
                              check_for_loop(agent.tracker, tc.name, h))))])
    /\ UNCHANGED nonAgVars

ToolOutcomesRunUnknown(a, tc) ==
    {[content |-> [kind |-> "error", why |-> "not_found"], passed |-> TRUE,
      executed |-> TRUE]}

\* Agent::execute_tool_call (lines 487-597): the outcomes of one call.  The
\* value is [content, passed, executed]: the text given back to the model,
\* whether ToolRegistry::call_tool was invoked, and whether it found the tool
\* and ran Tool::execute (tool.rs 151-163).
ToolOutcomes(a, tc) ==
    IF ~a.cfg.tools
    THEN {[content |-> [kind |-> "error", why |-> "no_registry"], passed |-> FALSE,
           executed |-> FALSE]}
    ELSE IF ~(IsJson(tc.arguments) /\ IsJsonObject(tc.arguments))
    THEN {[content |-> [kind |-> "error", why |-> "parse"], passed |-> FALSE,
           executed |-> FALSE]}
    ELSE IF tc.name \notin RegisteredTools
    THEN {[content |-> [kind |-> "error", why |-> "not_found"], passed |-> TRUE,
           executed |-> FALSE]}
    ELSE {[content |-> [kind |-> "result", call |-> tc.id], passed |-> TRUE,
           executed |-> TRUE],
          [content |-> [kind |-> "error", why |-> "tool_failed"], passed |-> TRUE,
           executed |-> TRUE]}

\* Lines 333-366: no loop was detected (or detection is off): the call is
\* executed, recorded in the tracker and its result pushed.
ToolCallExecuted ==
    /\ agent.pc = "dispatch"
    /\ LET tc == Head(agent.pending)
       IN /\ LoopCheckOn(agent) =>
                \E h \in hash_args(TrackerArgs(tc.arguments)) :
                    check_for_loop(agent.tracker, tc.name, h) = NoResult
          /\ \E out \in ToolOutcomes(agent, tc),
                h2 \in hash_args(TrackerArgs(tc.arguments)) :
                agent' = AfterCall([agent EXCEPT
                  !.events = agent.events \o
                      <<"ToolCallStarted",
                        IF out.content.kind = "result" THEN "ToolCallCompleted"
                        ELSE "ToolCallFailed">>,
                  !.registry_calls =
                      IF out.passed THEN Append(agent.registry_calls, tc.id)
                      ELSE agent.registry_calls,
                  !.executed =
                      IF out.executed THEN Append(agent.executed, tc.id)
                      ELSE agent.executed,
                  !.tracker =
                      IF agent.has_tracker
                      THEN record_call(agent.tracker, tc.name, h2, out.content)
                      ELSE agent.tracker,
                  !.messages = Append(agent.messages, ToolMessage(tc.id, out.content))])
    /\ UNCHANGED nonAgVars

(***************************************************************************)
(* Workflows, steps and the shared WorkflowContext (workflow.rs, step.rs,  *)
(* step_impls.rs, context.rs).  A step definition is a record; JSON data   *)
(* is a sequence of strings; an Option is the record Nothing or SomeOf(v). *)
(***************************************************************************)
Nothing == [some |-> FALSE]

SomeOf(v) == [some |-> TRUE, value |-> v]

AgentStepDef(n) == [type |-> "Agent", name |-> n]

TransformStepDef(n) == [type |-> "Transform", name |-> n]

SubWorkflowStepDef(n, w) == [type |-> "SubWorkflow", name |-> n, builds |-> w]

ConditionalStepDef(n, t, f) ==
    [type |-> "Conditional", name |-> n, true_step |-> t, false_step |-> f]

\* The two WorkflowContext objects of a run: the one given to the top-level
\* workflow and the one the builder of "grandchild" attaches to what it builds.
RootContext == "root_ctx"

BuilderContext == "builder_ctx"

ContextIds == {RootContext, BuilderContext}

\* What the workflow_builder closure of a SubWorkflow step returns.
Blueprint(w) ==
    CASE w = "child" ->
            [steps |-> <<SubWorkflowStepDef("child_sub", "grandchild"),
                         AgentStepDef("child_agent")>>,
             context |-> None]
      [] w = "grandchild" ->
            [steps |-> <<AgentStepDef("grandchild_agent")>>,
             context |-> BuilderContext]

\* The steps a top-level workflow may declare at position i.
StepChoices(i) ==
    LET n == ToString(i) IN
    { AgentStepDef("agent_" \o n),
      TransformStepDef("transform_" \o n),
      SubWorkflowStepDef("sub_" \o n, "child"),
      ConditionalStepDef("cond_" \o n,
                         SubWorkflowStepDef("branch_sub_" \o n, "grandchild"),
                         TransformStepDef("branch_transform_" \o n)) }

\* TransformStep::execute: the transform function applied to the input data;
\* here the function that appends the step's name.
transform_fn(name, data) == Append(data, name)

\* The history an agent run returns in AgentOutput.chat_history: the history
\* it was given followed by its final assistant message.
AgentUpdatedHistory(H, name) == Append(H, [role |-> "assistant", by |-> name])

\* WorkflowContext::set_history and ::history.
set_history(ctxs, c, H) == [ctxs EXCEPT ![c] = H]

context_history(ctxs, c) == ctxs[c]

\* SubWorkflowStep::execute_with_runtime: the context of the sub-workflow is
\* the parent's Arc when the parent has one, else what the builder attached.
SubWorkflowContextOwn(parent_context, built_context) == built_context

SubWorkflowContext(parent_context, built_context) ==
    IF parent_context # None THEN parent_context ELSE built_context

\* runtime.rs line 130: the data handed to the next step.
NextDataStale(current_data, output_data) == current_data

NextData(current_data, output_data) == output_data

(***************************************************************************)
(* Runtime::execute_with_parent (runtime.rs).  A run is a call stack of    *)
(* frames, one per execute_with_parent call in progress; the top frame is  *)
(* the one running.                                                        *)
(***************************************************************************)
RuntimeStream == "runtime"

PrivateStream == "private"

IdParts(wf) == <<wf>>

StepComponentId(wf, step_index) == IdParts(wf) \o <<"step", ToString(step_index)>>

\* WorkflowBuilder::build gives every workflow a fresh id ("wf_" and a new
\* uuid); here the id names the builder and the step that called it.
NewWorkflowId(builds, parent, step_index) ==
    builds \o "@" \o parent \o "." \o ToString(step_index)

NewFrame(wf, steps, initial_input, context, parent, stream) ==
    [pc |-> "start", workflow_id |-> wf, steps |-> steps,
     initial_input |-> initial_input, context |-> context,
     parent_workflow_id |-> parent, stream |-> stream, state |-> "Pending",
     run |-> NoValue, current_data |-> <<>>, step_index |-> 0,
     input |-> NoValue, received |-> <<>>, chosen |-> NoValue,
     via |-> "runtime", chat_history |-> Nothing, result |-> NoValue]

Top(r) == runs[r][Len(runs[r])]

WithTop(r, f) == [runs EXCEPT ![r] = [runs[r] EXCEPT ![Len(runs[r])] = f]]

\* The event-stream helper methods (event.rs 560-664): each one is
\* self.append(...) with parent_workflow_id None.
workflow_started(wf, parent) ==
    NewTask("Workflow", "Started", IdParts(wf), wf, None,
            [parent_workflow_id |-> parent])

workflow_completed(wf) == NewTask("Workflow", "Completed", IdParts(wf), wf, None, NoValue)

workflow_failed(wf) == NewTask("Workflow", "Failed", IdParts(wf), wf, None, NoValue)

step_started(wf, i) ==
    NewTask("WorkflowStep", "Started", StepComponentId(wf, i), wf, None, NoValue)

step_completed(wf, i) ==
    NewTask("WorkflowStep", "Completed", StepComponentId(wf, i), wf, None, NoValue)

step_failedUnreported(wf, i) == workflow_failed(wf)

step_failed(wf, i) ==
    NewTask("WorkflowStep", "Failed", StepComponentId(wf, i), wf, None, NoValue)

\* self.event_stream.<helper>(...) called by the frame f: the append tasks
\* are spawned on the stream of the Runtime that runs f.
Emit(f, evs) ==
    IF f.stream = RuntimeStream
    THEN /\ tasks' = tasks \o evs
         /\ UNCHANGED private_events
    ELSE /\ private_events' = private_events \o evs
         /\ UNCHANGED tasks

\* runtime.rs 36-57: workflow.started, state Running, the run record, and
\* current_data = initial_input.
RtWorkflowStart(r) ==
    LET f == Top(r) IN
    /\ f.pc = "start"
    /\ Emit(f, <<workflow_started(f.workflow_id, f.parent_workflow_id)>>)
    /\ runs' = WithTop(r, [f EXCEPT
           !.pc = "loop",
           !.state = "Running",
           !.run = [workflow_id |-> f.workflow_id, state |-> "Running",
                    steps |-> <<>>, final_output |-> Nothing,
                    parent_workflow_id |-> f.parent_workflow_id],
           !.current_data = f.initial_input])
    /\ UNCHANGED <<next_offset, history, rx, client, agent, contexts, ctxlog, pruner, unitVars>>

\* runtime.rs 60-88: the next step of the loop: step.started and the StepInput.
RtStepStart(r) ==
    LET f == Top(r)
        i == f.step_index
        input == [data |-> f.current_data,
                  step_index |-> i,
                  previous_step |-> IF i > 0 THEN f.steps[i].name ELSE None,
                  workflow_id |-> f.workflow_id,
                  workflow_context |-> f.context]
    IN
    /\ f.pc = "loop"
    /\ i < Len(f.steps)
    /\ Emit(f, <<step_started(f.workflow_id, i)>>)
    /\ runs' = WithTop(r, [f EXCEPT
           !.pc = "execute",
           !.input = input,
           !.received = Append(f.received, input),
           !.chosen = f.steps[i + 1],
           !.via = "runtime"])
    /\ UNCHANGED <<next_offset, history, rx, client, agent, contexts, ctxlog, pruner, unitVars>>

\* ConditionalStep::execute_with_context (step_impls.rs 182-206): the
\* condition function picks a branch, which runs through execute_with_context.
RtConditional(r) ==
    LET f == Top(r) IN
    /\ f.pc = "execute"
    /\ f.chosen.type = "Conditional"
    /\ \E condition_result \in BOOLEAN :
          runs' = WithTop(r, [f EXCEPT
              !.chosen = IF condition_result THEN f.chosen.true_step
                         ELSE f.chosen.false_step,
              !.via = "context"])
    /\ UNCHANGED <<evVars, agent, contexts, ctxlog, private_events, pruner, unitVars>>

\* TransformStep::execute (step_impls.rs 129-142).
RtTransform(r) ==
    LET f == Top(r) IN
    /\ f.pc = "execute"
    /\ f.chosen.type = "Transform"
    /\ runs' = WithTop(r, [f EXCEPT
           !.pc = "result",
           !.result = [ok |-> TRUE, data |-> transform_fn(f.chosen.name, f.input.data)]])
    /\ UNCHANGED <<evVars, agent, contexts, ctxlog, private_events, pruner, unitVars>>

\* TransformStep::execute when the transform function panics (step_impls.rs
\* 132): nothing between the call and Runtime::execute catches the unwind,
\* so the execute future panics; no step of the run happens after it.
RtTransformPanics(r) ==
    LET f == Top(r) IN
    /\ f.pc = "execute"
    /\ f.chosen.type = "Transform"
    /\ runs' = WithTop(r, [f EXCEPT !.pc = "panicked"])
    /\ UNCHANGED <<evVars, agent, contexts, ctxlog, private_events, pruner, unitVars>>

\* AgentStep::execute_with_context, first part (step_impls.rs 45-60): the
\* history is copied out of the context under the read lock.
RtAgentRead(r) ==
    LET f == Top(r)
        c == f.input.workflow_context
        H == IF c # None THEN SomeOf(context_history(contexts, c)) ELSE Nothing
    IN
    /\ f.pc = "execute"
    /\ f.chosen.type = "Agent"
    /\ runs' = WithTop(r, [f EXCEPT !.pc = "agent", !.chat_history = H])
    /\ ctxlog' = Append(ctxlog, [op |-> "read", run |-> r, depth |-> Len(runs[r]),
                                 step |-> f.chosen.name, context |-> c,
                                 chat_history |-> H])
    /\ UNCHANGED <<evVars, agent, contexts, private_events, pruner, unitVars>>

\* AgentStep::execute_with_context, second part (step_impls.rs 63-84): the
\* agent returns; on Ok its history replaces the context's, on Err the step
\* fails with AgentError and nothing is written.
WritesBackAlways(ok, c) == c # None

\* step_impls.rs 63-71: the `?` returns on Err before the write-back, which
\* needs a context.
WritesBack(ok, c) == ok /\ c # None

RtAgentDone(r) ==
    LET f == Top(r)
        c == f.input.workflow_context
    IN
    /\ f.pc = "agent"
    /\ \E ok \in BOOLEAN :
          /\ runs' = WithTop(r, [f EXCEPT
                 !.pc = "result",
                 !.result = IF ok THEN [ok |-> TRUE, data |-> <<f.chosen.name>>]
                            ELSE [ok |-> FALSE, error |-> "AgentError"]])
          /\ IF WritesBack(ok, c)
             THEN LET new_history ==
                          AgentUpdatedHistory(f.chat_history.value, f.chosen.name)
                  IN /\ contexts' = set_history(contexts, c, new_history)
                     /\ ctxlog' = Append(ctxlog,
                            [op |-> "write", run |-> r, depth |-> Len(runs[r]),
                             step |-> f.chosen.name, context |-> c,
                             chat_history |-> SomeOf(new_history)])
             ELSE UNCHANGED <<contexts, ctxlog>>
    /\ UNCHANGED <<evVars, agent, private_events, pruner, unitVars>>

\* SubWorkflowStep::execute_with_runtime (step_impls.rs 263-287), reached
\* from runtime.rs 91-100 with the running Runtime, or from
\* SubWorkflowStep::execute_with_context (311-321) with a new Runtime when
\* the step is the branch of a Conditional.
RtSubWorkflowCall(r) ==
    LET f == Top(r)
        built == Blueprint(f.chosen.builds)
        sub == NewFrame(NewWorkflowId(f.chosen.builds, f.workflow_id, f.step_index),
                        built.steps, f.input.data,
                        SubWorkflowContext(f.input.workflow_context, built.context),
                        f.input.workflow_id,
                        IF f.via = "runtime" THEN f.stream ELSE PrivateStream)
    IN
    /\ f.pc = "execute"
    /\ f.chosen.type = "SubWorkflow"
    /\ runs' = [runs EXCEPT ![r] = Append(WithTop(r, [f EXCEPT !.pc = "sub"])[r], sub)]
    /\ UNCHANGED <<evVars, agent, contexts, ctxlog, private_events, pruner, unitVars>>

SubWorkflowResultAlwaysOk(run) ==
    [ok |-> TRUE,
     data |-> IF run.final_output.some THEN run.final_output.value ELSE <<>>]

\* step_impls.rs 289-305: the StepResult made from the sub-run: an
\* ExecutionFailed error unless the run is Completed, else its final output
\* (or the empty object).
SubWorkflowResult(run) ==
    IF run.state # "Completed"
    THEN [ok |-> FALSE, error |-> "Sub-workflow failed"]
    ELSE [ok |-> TRUE,
          data |-> IF run.final_output.some THEN run.final_output.value ELSE <<>>]

\* step_impls.rs 284-305: execute_with_parent has returned the sub-run.
RtSubWorkflowReturn(r) ==
    LET sub == Top(r)
        n == Len(runs[r])
        f == runs[r][n - 1]
        result == SubWorkflowResult(sub.run)
    IN
    /\ n > 1
    /\ sub.pc = "returned"
    /\ runs' = [runs EXCEPT ![r] =
           [SubSeq(runs[r], 1, n - 1) EXCEPT ![n - 1] =
               [f EXCEPT !.pc = "result", !.result = result]]]
    /\ UNCHANGED <<evVars, agent, contexts, ctxlog, private_events, pruner, unitVars>>

\* runtime.rs 108-131: the step returned Ok.
RtStepCompleted(r) ==
    LET f == Top(r)
        i == f.step_index
    IN
    /\ f.pc = "result"
    /\ f.result.ok
    /\ Emit(f, <<step_completed(f.workflow_id, i)>>)
    /\ runs' = WithTop(r, [f EXCEPT
           !.pc = "loop",
           !.run.steps = Append(f.run.steps,
               [step_index |-> i, step_name |-> f.steps[i + 1].name,
                step_type |-> f.steps[i + 1].type,
                input |-> f.input.data, output |-> SomeOf(f.result.data)]),
           !.current_data = NextData(f.current_data, f.result.data),
           !.step_index = i + 1])
    /\ UNCHANGED <<next_offset, history, rx, client, agent, contexts, ctxlog, pruner, unitVars>>

\* runtime.rs 132-156: the step returned Err.
RtStepFailed(r) ==
    LET f == Top(r)
        i == f.step_index
    IN
    /\ f.pc = "result"
    /\ ~f.result.ok
    /\ Emit(f, <<step_failed(f.workflow_id, i), workflow_failed(f.workflow_id)>>)
    /\ runs' = WithTop(r, [f EXCEPT
           !.pc = "returned",
           !.state = "Failed",
           !.run.state = "Failed"])
    /\ UNCHANGED <<next_offset, history, rx, client, agent, contexts, ctxlog, pruner, unitVars>>

RunAfterLoopNoOutput(run, current_data) == [run EXCEPT !.state = "Completed"]

\* runtime.rs 161-162: run.final_output = Some(current_data); state Completed.
RunAfterLoop(run, current_data) ==
    [run EXCEPT !.final_output = SomeOf(current_data), !.state = "Completed"]

\* runtime.rs 160-172: the loop is over.
RtWorkflowCompleted(r) ==
    LET f == Top(r) IN
    /\ f.pc = "loop"
    /\ f.step_index = Len(f.steps)
    /\ Emit(f, <<workflow_completed(f.workflow_id)>>)
    /\ runs' = WithTop(r, [f EXCEPT
           !.pc = "returned",
           !.state = "Completed",
           !.run = RunAfterLoop(f.run, f.current_data)])
    /\ UNCHANGED <<next_offset, history, rx, client, agent, contexts, ctxlog, pruner, unitVars>>

(***************************************************************************)
(* Context strategies (context.rs, context_strategies.rs).  A ChatMessage  *)
(* is a record of its role, the byte length of its content, the number of  *)
(* its tool calls and an id that tells messages apart; the summary message *)
(* a strategy creates has id 0.                                            *)
(***************************************************************************)
Roles == {"system", "user", "assistant", "tool"}

Msg(role, len, calls, id) == [role |-> role, len |-> len, tool_calls |-> calls, id |-> id]

Min(a, b) == IF a < b THEN a ELSE b

saturating_sub(a, b) == IF a > b THEN a - b ELSE 0

\* estimate_tokens_simple (context_strategies.rs 6-20).
RECURSIVE estimate_tokens_simple(_)
estimate_tokens_simple(ms) ==
    IF ms = <<>> THEN 0
    ELSE (Head(ms).len \div 4) + 1 + Head(ms).tool_calls * 20
         + estimate_tokens_simple(Tail(ms))

\* TokenBudgetManager::estimate_tokens (143-161).
RECURSIVE TokenBudget_estimate_tokens(_)
TokenBudget_estimate_tokens(ms) ==
    IF ms = <<>> THEN 0
    ELSE (Head(ms).len \div 4) + 1 + Head(ms).tool_calls * 20
         + TokenBudget_estimate_tokens(Tail(ms))

\* NoOpManager::estimate_tokens (context.rs 184-190) and
\* SlidingWindowManager::estimate_tokens (238-244): content length only.
RECURSIVE content_tokens(_)
content_tokens(ms) ==
    IF ms = <<>> THEN 0 ELSE (Head(ms).len \div 4) + content_tokens(Tail(ms))

estimate_tokens(cfg, ms) ==
    CASE cfg.strategy = "NoOp" -> content_tokens(ms)
      [] cfg.strategy = "TokenBudget" -> TokenBudget_estimate_tokens(ms)
      [] cfg.strategy = "SlidingWindow" -> content_tokens(ms)
      [] cfg.strategy = "MessageType" -> estimate_tokens_simple(ms)
      [] cfg.strategy = "Summarization" -> estimate_tokens_simple(ms)

pruning_threshold(cfg) == saturating_sub(cfg.max_input_tokens, cfg.safety_buffer)

should_prune(cfg, H, current_tokens) ==
    CASE cfg.strategy = "NoOp" -> FALSE
      [] cfg.strategy = "TokenBudget" -> current_tokens > pruning_threshold(cfg)
      [] cfg.strategy = "SlidingWindow" -> Len(H) > cfg.max_messages
      [] cfg.strategy = "MessageType" -> Len(H) > cfg.max_messages
      [] cfg.strategy = "Summarization" -> current_tokens > cfg.summarization_threshold

\* history.iter().take_while(|msg| msg.role == Role::System).count()
RECURSIVE LeadingSystemCount(_)
LeadingSystemCount(H) ==
    IF H = <<>> \/ Head(H).role # "system" THEN 0 ELSE 1 + LeadingSystemCount(Tail(H))

TokenBudgetLoopOnce(cfg, remaining, current_tokens) ==
    IF current_tokens > cfg.max_input_tokens /\ Len(remaining) > cfg.min_messages_to_keep
    THEN Tail(remaining)
    ELSE remaining

\* The while loop of TokenBudgetManager::prune (123-131).
RECURSIVE TokenBudgetLoop(_, _, _)
TokenBudgetLoop(cfg, remaining, current_tokens) ==
    IF current_tokens > cfg.max_input_tokens /\ Len(remaining) > cfg.min_messages_to_keep
    THEN TokenBudgetLoop(cfg, Tail(remaining),
             saturating_sub(current_tokens, TokenBudget_estimate_tokens(<<Head(remaining)>>)))
    ELSE remaining

\* TokenBudgetManager::prune (96-141).
TokenBudget_prune(cfg, H) ==
    IF Len(H) <= cfg.min_messages_to_keep THEN H
    ELSE LET n == LeadingSystemCount(H)
             system_messages == SubSeq(H, 1, n)
             remaining == SubSeq(H, n + 1, Len(H))
         IN system_messages \o
            TokenBudgetLoop(cfg, remaining, TokenBudget_estimate_tokens(H))

\* SlidingWindowManager::prune (202-236).
SlidingWindow_prune(cfg, H) ==
    IF Len(H) <= cfg.max_messages THEN H
    ELSE LET system_count == LeadingSystemCount(H)
             messages_to_keep == saturating_sub(cfg.max_messages, system_count)
             rest == SubSeq(H, system_count + 1, Len(H))
             keep_from_index == saturating_sub(Len(rest), messages_to_keep)
         IN SubSeq(H, 1, system_count) \o SubSeq(rest, keep_from_index + 1, Len(rest))

\* MessageTypeManager::extract_recent_pairs (292-320); indices count from 0,
\* so message i is H[i + 1].  PrecedingUser is the inner for loop.
PrecedingUser(H, i) ==
    LET js == {j \in 0..(i - 1) : H[j + 1].role = "user"} IN
    IF js = {} THEN -1 ELSE CHOOSE j \in js : \A k \in js : k <= j

RECURSIVE ExtractPairsLoop(_, _, _, _, _)
ExtractPairsLoop(H, keep_pairs, i, pairs_found, pair_indices) ==
    IF ~(i > 0 /\ pairs_found < keep_pairs) THEN pair_indices
    ELSE LET i1 == i - 1 IN
         IF H[i1 + 1].role \notin {"user", "assistant"}
         THEN ExtractPairsLoop(H, keep_pairs, i1, pairs_found, pair_indices)
         ELSE IF H[i1 + 1].role = "assistant" /\ i1 > 0 /\ PrecedingUser(H, i1) >= 0
              THEN LET j == PrecedingUser(H, i1) IN
                   ExtractPairsLoop(H, keep_pairs, j, pairs_found + 1,
                                    pair_indices \cup {i1, j})
              ELSE ExtractPairsLoop(H, keep_pairs, i1, pairs_found,
                                    pair_indices \cup {i1})

extract_recent_pairs(H, keep_pairs) == ExtractPairsLoop(H, keep_pairs, Len(H), 0, {})

\* MessageTypeManager::classify_message (283-289) and the stable sort by it.
classify_message(m) ==
    CASE m.role = "system" -> 0
      [] m.role \in {"user", "assistant"} -> 1
      [] m.role = "tool" -> 2

sort_by_priority(ms) ==
    SelectSeq(ms, LAMBDA m : classify_message(m) = 0) \o
    SelectSeq(ms, LAMBDA m : classify_message(m) = 1) \o
    SelectSeq(ms, LAMBDA m : classify_message(m) = 2)

\* The messages of H at the indices of S, from index i on, in index order.
RECURSIVE PickIndices(_, _, _)
PickIndices(H, S, i) ==
    IF i >= Len(H) THEN <<>>
    ELSE (IF i \in S THEN <<H[i + 1]>> ELSE <<>>) \o PickIndices(H, S, i + 1)

\* MessageTypeManager::prune (336-377).
MessageType_prune(cfg, H) ==
    IF Len(H) <= cfg.max_messages THEN H
    ELSE LET system_indices == {i \in 0..(Len(H) - 1) : H[i + 1].role = "system"}
             protected == system_indices \cup extract_recent_pairs(H, cfg.keep_recent_pairs)
             new_history == PickIndices(H, protected, 0)
         IN IF Len(new_history) > cfg.max_messages
            THEN SubSeq(sort_by_priority(new_history), 1, cfg.max_messages)
            ELSE new_history

\* SummarizationManager::create_summary (438-477): a system message whose
\* content is the fixed text plus the two counts and the two previews.
SummaryPrefixLen == 35
SummaryCountsLen == 40
SummaryTopicLen == 18
SummaryLatestLen == 20
SummaryTrailerLen == 86
PreviewChars == 100

Digits(n) == IF n < 10 THEN 1 ELSE 2

create_summary(messages) ==
    LET user_messages == SelectSeq(messages, LAMBDA m : m.role = "user")
        assistant_messages == SelectSeq(messages, LAMBDA m : m.role = "assistant")
        counts == SummaryCountsLen + Digits(Len(user_messages))
                  + Digits(Len(assistant_messages))
        topic == IF user_messages = <<>> THEN 0
                 ELSE SummaryTopicLen + Min(PreviewChars, Head(user_messages).len)
        latest == IF assistant_messages = <<>> THEN 0
                  ELSE SummaryLatestLen
                       + Min(PreviewChars, assistant_messages[Len(assistant_messages)].len)
    IN Msg("system", SummaryPrefixLen + counts + topic + latest + SummaryTrailerLen, 0, 0)

\* SummarizationManager::prune (486-548).
Summarization_prune(cfg, H) ==
    LET keep_from_end == Min(cfg.keep_recent_count, Len(H))
        summarize_count == saturating_sub(Len(H), keep_from_end)
        to_summarize == SubSeq(H, 1, summarize_count)
        keep_recent == SubSeq(H, summarize_count + 1, Len(H))
        system_messages == SelectSeq(to_summarize, LAMBDA m : m.role = "system")
        non_system_to_summarize == SelectSeq(to_summarize, LAMBDA m : m.role # "system")
        new_history == system_messages \o
                       (IF non_system_to_summarize # <<>>
                        THEN <<create_summary(non_system_to_summarize)>> ELSE <<>>) \o
                       keep_recent
        emergency_keep == cfg.keep_recent_count \div 2
    IN IF estimate_tokens_simple(H) <= cfg.summarization_threshold THEN H
       ELSE IF summarize_count = 0 THEN H
       ELSE IF estimate_tokens_simple(new_history) > cfg.max_input_tokens
            THEN SelectSeq(new_history, LAMBDA m : m.role = "system") \o
                 (IF emergency_keep > 0 /\ emergency_keep < Len(H)
                  THEN SubSeq(H, Len(H) - emergency_keep + 1, Len(H)) ELSE <<>>)
            ELSE new_history

\* ContextManager::prune of the configured strategy; NoOp returns the
\* history unchanged (context.rs 177-182).
prune(cfg, H) ==
    CASE cfg.strategy = "NoOp" -> H
      [] cfg.strategy = "TokenBudget" -> TokenBudget_prune(cfg, H)
      [] cfg.strategy = "SlidingWindow" -> SlidingWindow_prune(cfg, H)
      [] cfg.strategy = "MessageType" -> MessageType_prune(cfg, H)
      [] cfg.strategy = "Summarization" -> Summarization_prune(cfg, H)

\* The configurations and histories the strategies are applied to.
StrategyConfigs ==
    {[strategy |-> "NoOp"]}
    \cup [strategy : {"TokenBudget"}, max_input_tokens : {0, 12, 30},
          min_messages_to_keep : {0, 1, 3}, safety_buffer : {0, 5}]
    \cup [strategy : {"SlidingWindow"}, max_messages : 0..MaxHistory]
    \cup [strategy : {"MessageType"}, max_messages : 0..MaxHistory,
          keep_recent_pairs : 0..2]
    \cup [strategy : {"Summarization"}, max_input_tokens : {5, 100},
          summarization_threshold : {0, 10, 60}, keep_recent_count : 0..MaxHistory]

MessageKinds ==
    {<<r, l, 0>> : r \in Roles, l \in {0, 40}} \cup {<<"assistant", 0, 1>>}

Histories ==
    UNION { {[i \in 1..n |-> Msg(k[i][1], k[i][2], k[i][3], i)] :
                k \in [1..n -> MessageKinds]} : n \in 0..MaxHistory }

\* Histories whose tool messages answer tool calls.  A ChatMessage also has
\* tool_calls and tool_call_id (llm/types.rs 20-29): the call carried by the
\* assistant message with id i is the call i, and a tool message names the
\* call it answers (0 stands for None on the other messages).
CallIdsOf(m) == IF m.role = "assistant" /\ m.tool_calls > 0 THEN {m.id} ELSE {}

LinkedMsg(m, call) ==
    [role |-> m.role, len |-> m.len, tool_calls |-> m.tool_calls, id |-> m.id,
     tool_call_id |-> call]

\* The calls a tool message at position i of H can answer.
AnswerableCalls(H, i) == UNION {CallIdsOf(H[j]) : j \in 1..(i - 1)}

Linkings(H) ==
    {a \in [1..Len(H) -> 0..MaxHistory] :
        \A i \in 1..Len(H) :
            IF H[i].role = "tool" THEN a[i] \in AnswerableCalls(H, i) ELSE a[i] = 0}

LinkedHistories ==
    UNION { {[i \in 1..Len(H) |-> LinkedMsg(H[i], a[i])] : a \in Linkings(H)} :
              H \in {G \in Histories : \E i \in 1..Len(G) : G[i].role = "tool"} }

PrunerEstimate ==
    /\ pruner.pc = "new"
    /\ LET tokens == estimate_tokens(pruner.cfg, pruner.history) IN
       pruner' = [pruner EXCEPT
           !.pc = "estimated",
           !.tokens = tokens,
           !.should_prune = should_prune(pruner.cfg, pruner.history, tokens)]
    /\ UNCHANGED <<evVars, agent, rtVars, unitVars>>

PrunerPrune ==
    /\ pruner.pc = "estimated"
    /\ pruner' = [pruner EXCEPT
           !.pc = "pruned",
           !.pruned = prune(pruner.cfg, pruner.history)]
    /\ UNCHANGED <<evVars, agent, rtVars, unitVars>>

(***************************************************************************)
(* RetryPolicy::execute (src/src/retry.rs).  The clock is read at the head *)
(* of every loop iteration; elapsed is TRUE once start.elapsed() exceeds   *)
(* max_total_duration, which can happen whenever time passes.              *)
(***************************************************************************)
LlmErrorCodes == {"NetworkError", "RateLimitExceeded", "ServerError", "InvalidRequest"}

LlmErr(code, retryable) == [variant |-> "Llm", code |-> code, retryable |-> retryable]

ToolErr == [variant |-> "Tool", code |-> "ExecutionFailed", retryable |-> FALSE]

OkResult == [variant |-> "Ok", code |-> "none", retryable |-> FALSE]

NoError == [variant |-> "None", code |-> "none", retryable |-> FALSE]

\* What the operation can return: Ok, an LlmError (code and flag are public
\* fields, set independently), or another error convertible to RuntimeError.
OperationResults ==
    {OkResult, ToolErr} \cup {LlmErr(c, f) : c \in LlmErrorCodes, f \in BOOLEAN}

is_retryable(e) == e.code \in {"NetworkError", "RateLimitExceeded", "ServerError"}

should_retry(e) == IF e.variant = "Llm" THEN is_retryable(e) ELSE FALSE

StopRetryingEarly(attempt, max_attempts, retry_ok) ==
    attempt + 1 >= max_attempts \/ ~retry_ok

StopRetrying(attempt, max_attempts, retry_ok) ==
    attempt >= max_attempts \/ ~retry_ok

RetryPolicies == [max_attempts : 0..MaxAttemptsCfg, max_total_duration : {"None", "Some"}]

OperationNames == {"fetch_data", "llm_call"}

NewRetry(policy, operation_name) ==
    [pc |-> "start", policy |-> policy, operation_name |-> operation_name,
     attempt |-> 0, elapsed |-> FALSE,
     last_error |-> NoError, calls |-> <<>>, slept |-> 0, result |-> NoError]

\* Time passing can take start.elapsed() over max_total_duration.
TimePasses(e) == IF retry.policy.max_total_duration = "Some" THEN {e, TRUE} ELSE {e}

RetryStart ==
    /\ retry.pc = "start"
    /\ \E e \in TimePasses(retry.elapsed) :
          retry' = [retry EXCEPT !.pc = "loop", !.elapsed = e]
    /\ UNCHANGED <<evVars, agent, rtVars, pruner, tracker, checkpoint, timeout, locking, llama>>

RetryLoopHead ==
    /\ retry.pc = "loop"
    /\ retry' = [retry EXCEPT !.pc =
           IF retry.attempt > retry.policy.max_attempts THEN "after"
           ELSE IF retry.policy.max_total_duration = "Some" /\ retry.elapsed THEN "after"
           ELSE "call"]
    /\ UNCHANGED <<evVars, agent, rtVars, pruner, tracker, checkpoint, timeout, locking, llama>>

RetryReturnOk ==
    /\ retry.pc = "call"
    /\ \E e \in TimePasses(retry.elapsed) :
          retry' = [retry EXCEPT !.pc = "returned", !.elapsed = e,
                                 !.calls = Append(@, OkResult), !.result = OkResult]
    /\ UNCHANGED <<evVars, agent, rtVars, pruner, tracker, checkpoint, timeout, locking, llama>>

RetryOperationFails ==
    /\ retry.pc = "call"
    /\ \E err \in OperationResults \ {OkResult}, e \in TimePasses(retry.elapsed) :
          retry' = [retry EXCEPT
              !.elapsed = e,
              !.calls = Append(@, err),
              !.last_error = err,
              !.pc = IF StopRetrying(retry.attempt, retry.policy.max_attempts,
                                     should_retry(err))
                     THEN "after" ELSE "sleep"]
    /\ UNCHANGED <<evVars, agent, rtVars, pruner, tracker, checkpoint, timeout, locking, llama>>

RetrySleep ==
    /\ retry.pc = "sleep"
    /\ \E e \in TimePasses(retry.elapsed) :
          retry' = [retry EXCEPT !.pc = "loop", !.elapsed = e, !.slept = @ + 1,
                                 !.attempt = @ + 1]
    /\ UNCHANGED <<evVars, agent, rtVars, pruner, tracker, checkpoint, timeout, locking, llama>>

\* After the loop: last_error.unwrap() panics when no invocation was made.
RetryGiveUp ==
    /\ retry.pc = "after"
    /\ retry' = IF retry.last_error = NoError
                THEN [retry EXCEPT !.pc = "panicked"]
                ELSE [retry EXCEPT !.pc = "returned",
                         !.result = [variant |-> "RetryExhausted",
                                     operation |-> retry.operation_name,
                                     attempts |-> retry.policy.max_attempts + 1,
                                     last_error |-> retry.last_error]]
    /\ UNCHANGED <<evVars, agent, rtVars, pruner, tracker, checkpoint, timeout, locking, llama>>

(***************************************************************************)
(* A ToolCallTracker driven through its public methods                     *)
(* (tool_loop_detection.rs 77-114).  `calls` remembers the arguments of    *)
(* the record_call invocations since the tracker was created or cleared.   *)
(***************************************************************************)
ArgMaps == {ObjectOf(s) : s \in {"{}", "{a:1}", "{a:1,b:2}"}}

ToolResults == {[kind |-> "result", call |-> c] : c \in 1..2}

NewTracker == [pc |-> "ready", history |-> <<>>, calls |-> <<>>, checked |-> NoValue]

TrackerRecord ==
    /\ tracker.pc # "idle"
    /\ Len(tracker.history) < MaxRecords
    /\ \E name \in ToolNames, args \in ArgMaps, result \in ToolResults :
          \E h \in hash_args(args) :
              tracker' = [tracker EXCEPT
                  !.pc = "ready",
                  !.history = record_call(tracker.history, name, h, result),
                  !.calls = Append(tracker.calls,
                                [name |-> name, args |-> args, result |-> result])]
    /\ UNCHANGED <<evVars, agent, rtVars, pruner, retry, checkpoint, timeout, locking, llama>>

TrackerCheck ==
    /\ tracker.pc # "idle"
    /\ \E name \in ToolNames, args \in ArgMaps :
          \E h \in hash_args(args) :
              tracker' = [tracker EXCEPT
                  !.pc = "checked",
                  !.checked = [name |-> name, args |-> args,
                               returned |-> check_for_loop(tracker.history, name, h)]]
    /\ UNCHANGED <<evVars, agent, rtVars, pruner, retry, checkpoint, timeout, locking, llama>>

TrackerClear ==
    /\ tracker.pc # "idle"
    /\ tracker.history # <<>>
    /\ tracker' = [tracker EXCEPT !.pc = "ready", !.history = <<>>, !.calls = <<>>]
    /\ UNCHANGED <<evVars, agent, rtVars, pruner, retry, checkpoint, timeout, locking, llama>>

(***************************************************************************)
(* A WorkflowContext written with serde_json::to_string and read back with *)
(* serde_json::from_str (context.rs 7-20, llm/types.rs 19-29, used as in   *)
(* tests/checkpoint_tests.rs 51-56).  A JSON object is a function from its *)
(* keys; an f64 is finite (its value) or NaN or an infinity.               *)
(***************************************************************************)
Finite(x) == [class |-> "finite", value |-> x]

NonFinite(c) == [class |-> c, value |-> 0]

RatioValues == {Finite(1), Finite(3), Finite(4), NonFinite("nan"), NonFinite("inf")}

TokenLimits == {24000, 128000}

\* ChatMessage values: plain messages, an assistant message with tool calls
\* (possibly an empty list) and a tool result.
CheckpointMessages ==
    {[role |-> r, content |-> "text", tool_calls |-> Nothing, tool_call_id |-> Nothing] :
        r \in {"system", "user", "assistant"}}
    \cup {[role |-> "assistant", content |-> "", tool_calls |-> SomeOf(c),
           tool_call_id |-> Nothing] : c \in {<<>>, <<"call_1">>, <<"call_1", "call_2">>}}
    \cup {[role |-> "tool", content |-> "result", tool_calls |-> Nothing,
           tool_call_id |-> SomeOf(c)] : c \in {"call_1", "call_2"}}

CheckpointContexts ==
    [chat_history : UNION {[1..n -> CheckpointMessages] : n \in 0..MaxCheckpointHistory},
     max_context_tokens : TokenLimits,
     input_output_ratio : RatioValues]

\* #[serde(skip_serializing_if = "Option::is_none")]: a None field is left out.
MessageKeys(m) ==
    {"role", "content"}
        \cup (IF m.tool_calls.some THEN {"tool_calls"} ELSE {})
        \cup (IF m.tool_call_id.some THEN {"tool_call_id"} ELSE {})

MessageToJson(m) ==
    [k \in MessageKeys(m) |->
        CASE k = "role" -> m.role
          [] k = "content" -> m.content
          [] k = "tool_calls" -> m.tool_calls.value
          [] k = "tool_call_id" -> m.tool_call_id.value]

\* serde_json writes a finite f64 as a number and NaN or an infinity as null.
F64ToJson(x) ==
    IF x.class = "finite" THEN [json |-> "number", value |-> x.value]
    ELSE [json |-> "null", value |-> 0]

ContextToJson(c) ==
    [chat_history |-> [i \in 1..Len(c.chat_history) |-> MessageToJson(c.chat_history[i])],
     max_context_tokens |-> c.max_context_tokens,
     input_output_ratio |-> F64ToJson(c.input_output_ratio)]

\* A key that is absent reads back as None for an Option field.
MessageFromJson(j) ==
    [role |-> j["role"], content |-> j["content"],
     tool_calls |-> IF "tool_calls" \in DOMAIN j THEN SomeOf(j["tool_calls"]) ELSE Nothing,
     tool_call_id |-> IF "tool_call_id" \in DOMAIN j THEN SomeOf(j["tool_call_id"])
                      ELSE Nothing]

\* from_str fails when a field of type f64 holds null.
JsonReadable(j) == j.input_output_ratio.json = "number"

ContextFromJson(j) ==
    [chat_history |-> [i \in 1..Len(j.chat_history) |-> MessageFromJson(j.chat_history[i])],
     max_context_tokens |-> j.max_context_tokens,
     input_output_ratio |-> Finite(j.input_output_ratio.value)]

NewCheckpoint(c) == [pc |-> "new", context |-> c, json |-> NoValue, restored |-> NoValue]

CheckpointSerialize ==
    /\ checkpoint.pc = "new"
    /\ checkpoint' = [checkpoint EXCEPT !.pc = "serialized",
                                        !.json = ContextToJson(checkpoint.context)]
    /\ UNCHANGED <<evVars, agent, rtVars, pruner, retry, tracker, timeout, locking, llama>>

CheckpointRestore ==
    /\ checkpoint.pc = "serialized"
    /\ JsonReadable(checkpoint.json)
    /\ checkpoint' = [checkpoint EXCEPT !.pc = "restored",
                                        !.restored = ContextFromJson(checkpoint.json)]
    /\ UNCHANGED <<evVars, agent, rtVars, pruner, retry, tracker, timeout, locking, llama>>

CheckpointRestoreFails ==
    /\ checkpoint.pc = "serialized"
    /\ ~JsonReadable(checkpoint.json)
    /\ checkpoint' = [checkpoint EXCEPT !.pc = "error"]
    /\ UNCHANGED <<evVars, agent, rtVars, pruner, retry, tracker, timeout, locking, llama>>

(***************************************************************************)
(* TimeoutConfig::execute (timeout.rs 76-94).  The operation is a future   *)
(* with the result it yields once it is ready; tokio's timeout polls the   *)
(* operation first and the deadline only when the operation is pending.    *)
(***************************************************************************)
TimeoutError(name, ms) == [variant |-> "Timeout", operation |-> name, duration_ms |-> ms]

\* What the wrapped operation can yield: Ok values and RuntimeErrors, one of
\* them a Timeout of an inner operation.
OperationOutcomes ==
    {[variant |-> "Ok", value |-> v] : v \in {"success", "done"}}
    \cup {[variant |-> "Llm", code |-> "NetworkError"],
          [variant |-> "Tool", code |-> "ExecutionFailed"],
          TimeoutError("inner", 10)}

TotalTimeouts == {Nothing, SomeOf(50)}

NewTimeout(total, name, outcome) ==
    [pc |-> "new", total |-> total, operation_name |-> name, outcome |-> outcome,
     ready |-> FALSE, elapsed |-> FALSE, result |-> NoValue]

TimeoutExecute ==
    /\ timeout.pc = "new"
    /\ timeout' = [timeout EXCEPT !.pc = "pending"]
    /\ UNCHANGED <<evVars, agent, rtVars, pruner, retry, tracker, checkpoint, locking, llama>>

\* The operation's future becomes ready.
TimeoutOperationReady ==
    /\ timeout.pc = "pending"
    /\ ~timeout.ready
    /\ timeout' = [timeout EXCEPT !.ready = TRUE]
    /\ UNCHANGED <<evVars, agent, rtVars, pruner, retry, tracker, checkpoint, locking, llama>>

\* The total duration has passed since the call.
TimeoutDeadlinePasses ==
    /\ timeout.pc = "pending"
    /\ timeout.total.some
    /\ ~timeout.elapsed
    /\ timeout' = [timeout EXCEPT !.elapsed = TRUE]
    /\ UNCHANGED <<evVars, agent, rtVars, pruner, retry, tracker, checkpoint, locking, llama>>

PollDeadlineFirst(t) ==
    IF t.total.some /\ t.elapsed THEN "elapsed"
    ELSE IF t.ready THEN "ready" ELSE "pending"

Poll(t) ==
    IF t.ready THEN "ready"
    ELSE IF t.total.some /\ t.elapsed THEN "elapsed" ELSE "pending"

TimeoutReturnsResult ==
    /\ timeout.pc = "pending"
    /\ Poll(timeout) = "ready"
    /\ timeout' = [timeout EXCEPT !.pc = "returned", !.result = timeout.outcome]
    /\ UNCHANGED <<evVars, agent, rtVars, pruner, retry, tracker, checkpoint, locking, llama>>

TimeoutReturnsTimeout ==
    /\ timeout.pc = "pending"
    /\ Poll(timeout) = "elapsed"
    /\ \E ms \in {timeout.total.value, timeout.total.value + 1} :
          timeout' = [timeout EXCEPT !.pc = "returned",
                         !.result = TimeoutError(timeout.operation_name, ms)]
    /\ UNCHANGED <<evVars, agent, rtVars, pruner, retry, tracker, checkpoint, locking, llama>>

(***************************************************************************)
(* The locks of the runtime and the scopes of their guards: the              *)
(* next_offset and history RwLocks of the EventStream (event.rs 321-347,     *)
(* 673-680) and the RwLock around the WorkflowContext (step_impls.rs         *)
(* 45-76).  A task that asks for a lock it cannot get waits.                 *)
(***************************************************************************)
Locks == {"next_offset", "history", "context"}

AppendTasks == {"append_1", "append_2"}

StepTasks == {"step_1", "step_2"}

ReaderTasks == {"reader"}

LockTasks == AppendTasks \cup StepTasks \cup ReaderTasks

NoHolder == "nobody"

NewLocking(has_context) ==
    [pc |-> [p \in LockTasks |-> IF p \in AppendTasks THEN "spawned" ELSE "start"],
     has_context |-> has_context,
     writer |-> [l \in Locks |-> NoHolder],
     readers |-> [l \in Locks |-> {}]]

\* RwLock::write, RwLock::read and the drop of a guard.
write_free(L, l) == L.writer[l] = NoHolder /\ L.readers[l] = {}

read_free(L, l) == L.writer[l] = NoHolder

write_lock(L, l, p) == [L EXCEPT !.writer[l] = p]

read_lock(L, l, p) == [L EXCEPT !.readers[l] = @ \cup {p}]

drop_guard(L, l, p) ==
    [L EXCEPT !.writer[l] = IF @ = p THEN NoHolder ELSE @, !.readers[l] = @ \ {p}]

At(L, p, pc) == [L EXCEPT !.pc[p] = pc]

LockingUnchanged ==
    UNCHANGED <<evVars, agent, rtVars, pruner, retry, tracker, checkpoint, timeout, llama>>

\* event.rs 322-327: the block that takes and increments the offset.
AppendLocksOffset(p) ==
    /\ locking.pc[p] = "spawned"
    /\ write_free(locking, "next_offset")
    /\ locking' = At(write_lock(locking, "next_offset", p), p, "offset_locked")
    /\ LockingUnchanged

AppendUnlocksOffset(p) ==
    /\ locking.pc[p] = "offset_locked"
    /\ locking' = At(drop_guard(locking, "next_offset", p), p, "build")
    /\ LockingUnchanged

\* event.rs 329-339: Event::with_parent(..)? ends the task on a bad id.
AppendBuildsEvent(p) ==
    /\ locking.pc[p] = "build"
    /\ \E valid \in BOOLEAN :
          locking' = At(locking, p, IF valid THEN "built" ELSE "done")
    /\ LockingUnchanged

\* event.rs 342: history.write().unwrap().push(event.clone());
AppendLocksHistory(p) ==
    /\ locking.pc[p] = "built"
    /\ write_free(locking, "history")
    /\ locking' = At(write_lock(locking, "history", p), p, "history_locked")
    /\ LockingUnchanged

AppendUnlocksHistory(p) ==
    /\ locking.pc[p] = "history_locked"
    /\ locking' = At(drop_guard(locking, "history", p), p, "send")
    /\ LockingUnchanged

\* event.rs 345-347: sender.send and the end of the task.
AppendSends(p) ==
    /\ locking.pc[p] = "send"
    /\ locking' = At(locking, p, "done")
    /\ LockingUnchanged

\* event.rs 673-680: from_offset reads the history under the read lock.
ReaderLocksHistory(p) ==
    /\ locking.pc[p] = "start"
    /\ read_free(locking, "history")
    /\ locking' = At(read_lock(locking, "history", p), p, "reading")
    /\ LockingUnchanged

ReaderUnlocksHistory(p) ==
    /\ locking.pc[p] = "reading"
    /\ locking' = At(drop_guard(locking, "history", p), p, "done")
    /\ LockingUnchanged

\* step_impls.rs 45-50: the history is copied out inside the if-let block.
StepLocksForCopy(p) ==
    /\ locking.pc[p] = "start"
    /\ IF locking.has_context
       THEN /\ read_free(locking, "context")
            /\ locking' = At(read_lock(locking, "context", p), p, "copying")
       ELSE locking' = At(locking, p, "agent")
    /\ LockingUnchanged

EndOfCopyBlockGuardKept(L, p) == L

\* step_impls.rs 48: the guard `context` is dropped at the end of the block.
EndOfCopyBlock(L, p) == drop_guard(L, "context", p)

StepEndsCopy(p) ==
    /\ locking.pc[p] = "copying"
    /\ locking' = At(EndOfCopyBlock(locking, p), p, "agent")
    /\ LockingUnchanged

\* step_impls.rs 63-67: execute_with_events(..).await and the `?`.
StepAgentReturns(p) ==
    /\ locking.pc[p] = "agent"
    /\ \E ok \in BOOLEAN :
          locking' = At(locking, p, IF ok THEN "returned" ELSE "done")
    /\ LockingUnchanged

\* step_impls.rs 70-75: the new history is installed under the write lock.
StepLocksForInstall(p) ==
    /\ locking.pc[p] = "returned"
    /\ IF locking.has_context
       THEN /\ write_free(locking, "context")
            /\ locking' = At(write_lock(locking, "context", p), p, "installing")
       ELSE locking' = At(locking, p, "done")
    /\ LockingUnchanged

StepEndsInstall(p) ==
    /\ locking.pc[p] = "installing"
    /\ locking' = At(drop_guard(locking, "context", p), p, "done")
    /\ LockingUnchanged

AgentInit ==
    /\ agent \in {NewAgent(cfg) : cfg \in AgentConfigs}
    /\ RuntimeIdle
    /\ pruner = PrunerIdle
    /\ UnitsIdle
    /\ next_offset = 0
    /\ history = <<>>
    /\ tasks = <<>>
    /\ rx = [active |-> FALSE, queue |-> <<>>]
    /\ client = [pc |-> "off"]

AgentNext ==
    \/ AgentStart
    \/ AgentIterate
    \/ LlmFails
    \/ LlmFinal
    \/ LlmToolCalls
    \/ ToolCallSuppressed
    \/ ToolCallExecuted

SpecAgent == AgentInit /\ [][AgentNext]_vars

EventsInit ==
    /\ agent = AgentIdle
    /\ RuntimeIdle
    /\ pruner = PrunerIdle
    /\ UnitsIdle
    /\ next_offset = 0
    /\ history = <<>>
    /\ tasks = <<>>
    /\ rx = [active |-> TRUE, queue |-> <<>>]
    /\ client = [pc |-> "live", last_offset |-> 0, observed |-> FALSE, L |-> 0,
                 replay |-> {}, got |-> {}]

EventsNext ==
    \/ CallAppend
    \/ AppendTaskStep
    \/ ClientRecv
    \/ ClientDisconnect
    \/ ClientReplay
    \/ ClientSubscribe

SpecEvents == EventsInit /\ [][EventsNext]_vars

\* The workflows handed to Runtime::execute: up to MaxSteps steps, with or
\* without a WorkflowContext.
TopLevelSteps ==
    UNION { {s \in [1..n -> UNION {StepChoices(i) : i \in 0..(MaxSteps - 1)}] :
                \A k \in 1..n : s[k] \in StepChoices(k - 1)} : n \in 0..MaxSteps }

RuntimeInit ==
    /\ agent = AgentIdle
    /\ pruner = PrunerIdle
    /\ UnitsIdle
    /\ next_offset = 0
    /\ history = <<>>
    /\ tasks = <<>>
    /\ rx = [active |-> FALSE, queue |-> <<>>]
    /\ client = [pc |-> "off"]
    /\ contexts = [c \in ContextIds |-> <<>>]
    /\ ctxlog = <<>>
    /\ private_events = <<>>
    /\ \E steps \in TopLevelSteps, context \in {None, RootContext} :
          runs = <<<<NewFrame("main", steps, <<"input">>, context, None, RuntimeStream)>>>>

RuntimeNext ==
    \/ \E r \in 1..Len(runs) : RtWorkflowStart(r)
    \/ \E r \in 1..Len(runs) : RtStepStart(r)
    \/ \E r \in 1..Len(runs) : RtConditional(r)
    \/ \E r \in 1..Len(runs) : RtTransform(r)
    \/ \E r \in 1..Len(runs) : RtTransformPanics(r)
    \/ \E r \in 1..Len(runs) : RtAgentRead(r)
    \/ \E r \in 1..Len(runs) : RtAgentDone(r)
    \/ \E r \in 1..Len(runs) : RtSubWorkflowCall(r)
    \/ \E r \in 1..Len(runs) : RtSubWorkflowReturn(r)
    \/ \E r \in 1..Len(runs) : RtStepCompleted(r)
    \/ \E r \in 1..Len(runs) : RtStepFailed(r)
    \/ \E r \in 1..Len(runs) : RtWorkflowCompleted(r)

SpecRuntime == RuntimeInit /\ [][RuntimeNext]_vars

\* Runs of workflows of up to MaxPlainSteps Agent and Transform steps, with
\* the append tasks the Runtime spawns running concurrently with it.
PlainSteps ==
    {s \in TopLevelSteps :
        Len(s) <= MaxPlainSteps /\ \A k \in 1..Len(s) : s[k].type \in {"Agent", "Transform"}}

RuntimeEventsInit ==
    /\ agent = AgentIdle
    /\ pruner = PrunerIdle
    /\ UnitsIdle
    /\ next_offset = 0
    /\ history = <<>>
    /\ tasks = <<>>
    /\ rx = [active |-> FALSE, queue |-> <<>>]
    /\ client = [pc |-> "off"]
    /\ contexts = [c \in ContextIds |-> <<>>]
    /\ ctxlog = <<>>
    /\ private_events = <<>>
    /\ \E steps \in PlainSteps, context \in {None, RootContext} :
          runs = <<<<NewFrame("main", steps, <<"input">>, context, None, RuntimeStream)>>>>

RuntimeEventsNext ==
    \/ AppendTaskStep
    \/ \E r \in 1..Len(runs) : RtWorkflowStart(r)
    \/ \E r \in 1..Len(runs) : RtStepStart(r)
    \/ \E r \in 1..Len(runs) : RtTransform(r)
    \/ \E r \in 1..Len(runs) : RtTransformPanics(r)
    \/ \E r \in 1..Len(runs) : RtAgentRead(r)
    \/ \E r \in 1..Len(runs) : RtAgentDone(r)
    \/ \E r \in 1..Len(runs) : RtStepCompleted(r)
    \/ \E r \in 1..Len(runs) : RtStepFailed(r)
    \/ \E r \in 1..Len(runs) : RtWorkflowCompleted(r)

SpecRuntimeEvents == RuntimeEventsInit /\ [][RuntimeEventsNext]_vars

PruneInit ==
    /\ agent = AgentIdle
    /\ UnitsIdle
    /\ RuntimeIdle
    /\ next_offset = 0
    /\ history = <<>>
    /\ tasks = <<>>
    /\ rx = [active |-> FALSE, queue |-> <<>>]
    /\ client = [pc |-> "off"]
    /\ \E cfg \in StrategyConfigs, H \in Histories :
          pruner = [pc |-> "new", cfg |-> cfg, history |-> H, tokens |-> 0,
                    should_prune |-> FALSE, pruned |-> <<>>]

PruneNext == PrunerEstimate \/ PrunerPrune

SpecPrune == PruneInit /\ [][PruneNext]_vars

PruneLinkedInit ==
    /\ agent = AgentIdle
    /\ UnitsIdle
    /\ RuntimeIdle
    /\ next_offset = 0
    /\ history = <<>>
    /\ tasks = <<>>
    /\ rx = [active |-> FALSE, queue |-> <<>>]
    /\ client = [pc |-> "off"]
    /\ \E cfg \in StrategyConfigs, H \in LinkedHistories :
          pruner = [pc |-> "new", cfg |-> cfg, history |-> H, tokens |-> 0,
                    should_prune |-> FALSE, pruned |-> <<>>]

SpecPruneLinked == PruneLinkedInit /\ [][PruneNext]_vars

RetryInit ==
    /\ agent = AgentIdle
    /\ RuntimeIdle
    /\ pruner = PrunerIdle
    /\ tracker = TrackerIdle
    /\ checkpoint = CheckpointIdle
    /\ timeout = TimeoutIdle
    /\ locking = LockingIdle
    /\ llama = LlamaIdle
    /\ next_offset = 0
    /\ history = <<>>
    /\ tasks = <<>>
    /\ rx = [active |-> FALSE, queue |-> <<>>]
    /\ client = [pc |-> "off"]
    /\ retry \in {NewRetry(p, n) : p \in RetryPolicies, n \in OperationNames}

RetryNext ==
    \/ RetryStart
    \/ RetryLoopHead
    \/ RetryReturnOk
    \/ RetryOperationFails
    \/ RetrySleep
    \/ RetryGiveUp

SpecRetry == RetryInit /\ [][RetryNext]_vars

TrackerInit ==
    /\ agent = AgentIdle
    /\ RuntimeIdle
    /\ pruner = PrunerIdle
    /\ retry = RetryIdle
    /\ checkpoint = CheckpointIdle
    /\ timeout = TimeoutIdle
    /\ locking = LockingIdle
    /\ llama = LlamaIdle
    /\ next_offset = 0
    /\ history = <<>>
    /\ tasks = <<>>
    /\ rx = [active |-> FALSE, queue |-> <<>>]
    /\ client = [pc |-> "off"]
    /\ tracker = NewTracker

TrackerNext == TrackerRecord \/ TrackerCheck \/ TrackerClear

SpecTracker == TrackerInit /\ [][TrackerNext]_vars

CheckpointInit ==
    /\ agent = AgentIdle
    /\ RuntimeIdle
    /\ pruner = PrunerIdle
    /\ retry = RetryIdle
    /\ tracker = TrackerIdle
    /\ timeout = TimeoutIdle
    /\ locking = LockingIdle
    /\ llama = LlamaIdle
    /\ next_offset = 0
    /\ history = <<>>
    /\ tasks = <<>>
    /\ rx = [active |-> FALSE, queue |-> <<>>]
    /\ client = [pc |-> "off"]
    /\ checkpoint \in {NewCheckpoint(c) : c \in CheckpointContexts}

CheckpointNext == CheckpointSerialize \/ CheckpointRestore \/ CheckpointRestoreFails

SpecCheckpoint == CheckpointInit /\ [][CheckpointNext]_vars

TimeoutInit ==
    /\ agent = AgentIdle
    /\ RuntimeIdle
    /\ pruner = PrunerIdle
    /\ retry = RetryIdle
    /\ tracker = TrackerIdle
    /\ checkpoint = CheckpointIdle
    /\ locking = LockingIdle
    /\ llama = LlamaIdle
    /\ next_offset = 0
    /\ history = <<>>
    /\ tasks = <<>>
    /\ rx = [active |-> FALSE, queue |-> <<>>]
    /\ client = [pc |-> "off"]
    /\ timeout \in {NewTimeout(t, n, o) :
                       t \in TotalTimeouts, n \in OperationNames, o \in OperationOutcomes}

TimeoutNext ==
    \/ TimeoutExecute
    \/ TimeoutOperationReady
    \/ TimeoutDeadlinePasses
    \/ TimeoutReturnsResult
    \/ TimeoutReturnsTimeout

SpecTimeout == TimeoutInit /\ [][TimeoutNext]_vars

LocksInit ==
    /\ agent = AgentIdle
    /\ RuntimeIdle
    /\ pruner = PrunerIdle
    /\ retry = RetryIdle
    /\ tracker = TrackerIdle
    /\ checkpoint = CheckpointIdle
    /\ timeout = TimeoutIdle
    /\ next_offset = 0
    /\ history = <<>>
    /\ tasks = <<>>
    /\ rx = [active |-> FALSE, queue |-> <<>>]
    /\ client = [pc |-> "off"]
    /\ llama = LlamaIdle
    /\ locking \in {NewLocking(c) : c \in BOOLEAN}

LocksNext ==
    \/ \E p \in AppendTasks : AppendLocksOffset(p)
    \/ \E p \in AppendTasks : AppendUnlocksOffset(p)
    \/ \E p \in AppendTasks : AppendBuildsEvent(p)
    \/ \E p \in AppendTasks : AppendLocksHistory(p)
    \/ \E p \in AppendTasks : AppendUnlocksHistory(p)
    \/ \E p \in AppendTasks : AppendSends(p)
    \/ \E p \in ReaderTasks : ReaderLocksHistory(p)
    \/ \E p \in ReaderTasks : ReaderUnlocksHistory(p)
    \/ \E p \in StepTasks : StepLocksForCopy(p)
    \/ \E p \in StepTasks : StepEndsCopy(p)
    \/ \E p \in StepTasks : StepAgentReturns(p)
    \/ \E p \in StepTasks : StepLocksForInstall(p)
    \/ \E p \in StepTasks : StepEndsInstall(p)

SpecLocks == LocksInit /\ [][LocksNext]_vars

\* Two workflows given the same WorkflowContext and executed concurrently,
\* each with up to MaxSharedSteps AgentSteps.
SharedSteps(tag) ==
    {[k \in 1..n |-> AgentStepDef(tag \o "_" \o ToString(k - 1))] : n \in 1..MaxSharedSteps}

SharedContextInit ==
    /\ agent = AgentIdle
    /\ pruner = PrunerIdle
    /\ UnitsIdle
    /\ next_offset = 0
    /\ history = <<>>
    /\ tasks = <<>>
    /\ rx = [active |-> FALSE, queue |-> <<>>]
    /\ client = [pc |-> "off"]
    /\ contexts = [c \in ContextIds |-> <<>>]
    /\ ctxlog = <<>>
    /\ private_events = <<>>
    /\ \E a \in SharedSteps("first"), b \in SharedSteps("second") :
          runs = << <<NewFrame("wf_first", a, <<"input">>, RootContext, None,
                               RuntimeStream)>>,
                    <<NewFrame("wf_second", b, <<"input">>, RootContext, None,
                               RuntimeStream)>> >>

SharedContextNext ==
    \/ \E r \in 1..Len(runs) : RtWorkflowStart(r)
    \/ \E r \in 1..Len(runs) : RtStepStart(r)
    \/ \E r \in 1..Len(runs) : RtAgentRead(r)
    \/ \E r \in 1..Len(runs) : RtAgentDone(r)
    \/ \E r \in 1..Len(runs) : RtStepCompleted(r)
    \/ \E r \in 1..Len(runs) : RtStepFailed(r)
    \/ \E r \in 1..Len(runs) : RtWorkflowCompleted(r)

SpecSharedContext == SharedContextInit /\ [][SharedContextNext]_vars

(***************************************************************************)
(* LlamaClient::chat_stream (llm/provider/llama.rs): the tool calls         *)
(* accumulated from the tool_calls arrays of the streamed deltas.  A        *)
(* fragment is one element of such an array: a JSON object with an index    *)
(* and, each present or absent, id, type, function.name and                 *)
(* function.arguments.                                                      *)
(***************************************************************************)
NoIndex == 0 - 1

Fragment(index, id, type, name, arguments) ==
    [index |-> index, id |-> id, type |-> type, name |-> name,
     arguments |-> arguments]

\* The first fragment of a tool call: index, id, type, name and the start
\* of the arguments text.
FirstFragment(i, piece) ==
    Fragment(i, SomeOf("call_" \o ToString(i)), SomeOf("function"),
             SomeOf("tool_" \o ToString(i)), SomeOf(piece))

\* A later fragment that carries only the index and more arguments text.
ArgumentsFragment(i, piece) == Fragment(i, Nothing, Nothing, Nothing, SomeOf(piece))

\* A later fragment that repeats id, type and name beside the text.
RepeatingFragment(i, piece) == FirstFragment(i, piece)

FirstPieces == {"", "{"}

LaterPieces == {"a", "}"}

IndicesOf(fs) == {fs[k].index : k \in 1..Len(fs)}

\* The fragments a server may send after the fragments fs: more text for a
\* tool call already begun, or the first fragment of the next index.
NextFragments(fs) ==
    {ArgumentsFragment(i, p) : i \in IndicesOf(fs), p \in LaterPieces}
    \cup {RepeatingFragment(i, p) : i \in IndicesOf(fs), p \in LaterPieces}
    \cup {FirstFragment(i, p) :
              i \in {j \in 0..MaxIndex : j = Cardinality(IndicesOf(fs))},
              p \in FirstPieces}

\* serde_json::from_value::<LlamaToolCall> (llama.rs 355-366): id, type,
\* function.name and function.arguments are required fields.
Deserializes(frag) ==
    frag.id.some /\ frag.type.some /\ frag.name.some /\ frag.arguments.some

LlamaToolCall(frag) ==
    [id |-> frag.id.value, type |-> frag.type.value,
     function |-> [name |-> frag.name.value, arguments |-> frag.arguments.value]]

\* llama.rs 250-272: one element of a delta's tool_calls array.
AccumulateToolCall(accumulated_tool_calls, tool_call) ==
    IF ~Deserializes(tool_call) THEN accumulated_tool_calls
    ELSE IF tool_call.index # NoIndex
    THEN IF tool_call.index < Len(accumulated_tool_calls)
         THEN IF tool_call.arguments.some
              THEN [accumulated_tool_calls EXCEPT
                        ![tool_call.index + 1].function.arguments =
                            @ \o tool_call.arguments.value]
              ELSE accumulated_tool_calls
         ELSE Append(accumulated_tool_calls, LlamaToolCall(tool_call))
    ELSE Append(accumulated_tool_calls, LlamaToolCall(tool_call))

\* llama.rs 279-296: the tool_calls of the ChatResponse.
ResponseToolCalls(accumulated_tool_calls) ==
    IF accumulated_tool_calls = <<>> THEN Nothing
    ELSE SomeOf([k \in 1..Len(accumulated_tool_calls) |->
                    [id |-> accumulated_tool_calls[k].id,
                     type |-> accumulated_tool_calls[k].type,
                     function |-> accumulated_tool_calls[k].function]])

\* llama.rs 204-208: the accumulators before the first chunk.
NewLlama ==
    [pc |-> "streaming", received |-> <<>>, accumulated_tool_calls |-> <<>>,
     tool_calls |-> Nothing]

\* One fragment arrives in a delta and is accumulated.
LlamaToolCallDelta(tool_call) ==
    /\ llama.pc = "streaming"
    /\ Len(llama.received) < MaxFragments
    /\ tool_call \in NextFragments(llama.received)
    /\ llama' = [llama EXCEPT
           !.received = Append(@, tool_call),
           !.accumulated_tool_calls = AccumulateToolCall(@, tool_call)]
    /\ UNCHANGED <<evVars, agent, rtVars, pruner, retry, tracker, checkpoint,
                   timeout, locking>>

\* The byte stream ends and the response is built.
LlamaStreamEnds ==
    /\ llama.pc = "streaming"
    /\ llama' = [llama EXCEPT
           !.pc = "done",
           !.tool_calls = ResponseToolCalls(llama.accumulated_tool_calls)]
    /\ UNCHANGED <<evVars, agent, rtVars, pruner, retry, tracker, checkpoint,
                   timeout, locking>>

AllFragments ==
    {ArgumentsFragment(i, p) : i \in 0..MaxIndex, p \in LaterPieces}
    \cup {FirstFragment(i, p) : i \in 0..MaxIndex, p \in FirstPieces \cup LaterPieces}

LlamaInit ==
    /\ agent = AgentIdle
    /\ RuntimeIdle
    /\ pruner = PrunerIdle
    /\ retry = RetryIdle
    /\ tracker = TrackerIdle
    /\ checkpoint = CheckpointIdle
    /\ timeout = TimeoutIdle
    /\ locking = LockingIdle
    /\ next_offset = 0
    /\ history = <<>>
    /\ tasks = <<>>
    /\ rx = [active |-> FALSE, queue |-> <<>>]
    /\ client = [pc |-> "off"]
    /\ llama = NewLlama

LlamaNext ==
    \/ \E tool_call \in AllFragments : LlamaToolCallDelta(tool_call)
    \/ LlamaStreamEnds

SpecLlama == LlamaInit /\ [][LlamaNext]_vars

Init ==
    \/ EventsInit
    \/ PruneInit
    \/ AgentInit
    \/ RuntimeInit
    \/ RuntimeEventsInit
    \/ PruneLinkedInit
    \/ RetryInit
    \/ TrackerInit
    \/ CheckpointInit
    \/ TimeoutInit
    \/ LocksInit
    \/ SharedContextInit
    \/ LlamaInit

Next ==
    \/ EventsNext
    \/ PruneNext
    \/ AgentNext
    \/ RuntimeNext
    \/ RuntimeEventsNext
    \/ RetryNext
    \/ TrackerNext
    \/ CheckpointNext
    \/ TimeoutNext
    \/ LocksNext
    \/ LlamaNext

Spec == Init /\ [][Next]_vars

(***************************************************************************)
(* Properties of the event stream (SpecEvents).                            *)
(***************************************************************************)
TaskIds == 1..Len(tasks)

AllIdsValid ==
    \A i \in TaskIds : validate_component_id(tasks[i].scope, tasks[i].component_id)

TookOffset == {i \in TaskIds : tasks[i].pc # "spawned"}

AllTasksFinished == \A i \in TaskIds : tasks[i].pc \in {"done", "failed"}

HistoryOffsets == {history[k].offset : k \in 1..Len(history)}

\* C1: when every append carries a valid component id, the offsets given
\* out under any interleaving of the append tasks are pairwise distinct and
\* are exactly 0..n-1 for the n appends that have taken one; once the tasks
\* have finished, the history holds one event per offset of 0..n-1.
C1_OffsetsContiguous ==
    AllIdsValid =>
        /\ \A i, j \in TookOffset : i # j => tasks[i].offset # tasks[j].offset
        /\ {tasks[i].offset : i \in TookOffset} = 0..(Cardinality(TookOffset) - 1)
        /\ AllTasksFinished =>
              /\ Len(history) = Len(tasks)
              /\ HistoryOffsets = 0..(Len(tasks) - 1)

\* Three valid appends ran concurrently: all finished, and the history
\* holds them in an order that is not the offset order.
C1_Witness ==
    /\ AllIdsValid
    /\ Len(tasks) = MaxAppends
    /\ AllTasksFinished
    /\ history[1].offset > history[2].offset

QueueOffsets == {rx.queue[k].offset : k \in 1..Len(rx.queue)}

\* C5: a subscriber that observed last offset L, replayed from_offset(L+1)
\* and then subscribed afresh obtains, from the replay and the new
\* subscription together, every event with an offset above L.  Stated once
\* the append tasks have finished, with what sits in the new receiver's
\* queue counted as obtained.
C5_ReplayComplete ==
    (client.pc = "resubscribed" /\ AllTasksFinished) =>
        \A k \in 1..Len(history) :
            history[k].offset > client.L =>
                history[k].offset \in (client.replay \cup client.got \cup QueueOffsets)

\* C7: an append with an invalid component id consumes no offset, adds
\* nothing to the history and broadcasts nothing: once the append tasks have
\* finished, current_offset equals the number of stored events, the stored
\* offsets are 0..len-1, and no rejected append left an event anywhere.
C7_RejectedAppendConsumesNothing ==
    AllTasksFinished =>
        /\ current_offset = Len(history)
        /\ HistoryOffsets = 0..(Len(history) - 1)
        /\ \A i \in TaskIds :
              tasks[i].pc = "failed" =>
                  /\ tasks[i].offset \notin HistoryOffsets
                  /\ tasks[i].offset \notin QueueOffsets

(***************************************************************************)
(* Properties of the agent run (SpecAgent).                                *)
(***************************************************************************)
\* C2: whatever the model returns, a run makes at most max_tool_iterations
\* model calls.
C2_ModelCallsBounded ==
    agent.pc # "idle" => agent.llm_calls <= agent.cfg.max_tool_iterations

\* A run that used up its iterations: it made max_tool_iterations (here at
\* least two) model calls and then failed on the limit.
C2_Witness ==
    /\ agent.pc = "failed"
    /\ agent.error = "max_iterations"
    /\ agent.cfg.max_tool_iterations >= 2
    /\ agent.llm_calls = agent.cfg.max_tool_iterations

AssistantCalls(m) == IF m.role = "assistant" THEN Range(m.tool_calls) ELSE {}

EmittedCalls == UNION {AssistantCalls(agent.messages[k]) : k \in 1..Len(agent.messages)}

ToolMessageOf(id) ==
    CHOOSE m \in Range(agent.messages) : m.role = "tool" /\ m.tool_call_id = id

SameCall(c) == {d \in EmittedCalls : d.name = c.name /\ d.arguments = c.arguments}

PassedToRegistry(S) == {d \in S : d.id \in Range(agent.registry_calls)}

AgentBetweenResponses == agent.pc \in {"loop", "calling", "completed", "failed"}

\* C3: with loop detection enabled, of the k tool calls of a run that have
\* the same tool name and equal arguments exactly one is passed to the tool
\* registry, and each of the others gets a suppression message holding the
\* result of that one execution.  Stated for an agent with a tool registry,
\* a loop message that quotes the previous result, and arguments that are
\* a JSON object, each time the calls of a response have all been handled.
C3_OneExecutionPerDistinctCall ==
    ( /\ AgentBetweenResponses
      /\ LoopCheckOn(agent)
      /\ agent.cfg.tools
      /\ agent.cfg.tool_loop_detection.custom # "plain" ) =>
        \A c \in EmittedCalls :
            IsJsonObject(c.arguments) =>
                /\ Cardinality(PassedToRegistry(SameCall(c))) = 1
                /\ \A d \in SameCall(c) \ PassedToRegistry(SameCall(c)) :
                      \A e \in PassedToRegistry(SameCall(c)) :
                          /\ ToolMessageOf(d.id).content.kind = "loop"
                          /\ ToolMessageOf(d.id).content.prev = ToolMessageOf(e.id).content

(***************************************************************************)
(* Properties of Runtime runs (SpecRuntime).                               *)
(***************************************************************************)
AllFrames == UNION {{runs[r][d] : d \in 1..Len(runs[r])} : r \in 1..Len(runs)}

\* C4: in a Runtime run the steps execute in declared order; step 0 receives
\* the workflow's initial input, every step i > 0 receives exactly the output
\* data of step i-1 with previous_step naming step i-1, and the final_output
\* of a successful run is the output of the last step.
C4_OutputsThreaded ==
    \A f \in AllFrames :
        /\ \A k \in 1..Len(f.received) :
              /\ f.received[k].step_index = k - 1
              /\ k = 1 => /\ f.received[k].data = f.initial_input
                          /\ f.received[k].previous_step = None
              /\ k > 1 => /\ Len(f.run.steps) >= k - 1
                          /\ f.run.steps[k - 1].step_name = f.steps[k - 1].name
                          /\ f.run.steps[k - 1].output = SomeOf(f.received[k].data)
                          /\ f.received[k].previous_step = f.steps[k - 1].name
        /\ (f.pc = "returned" /\ f.run.state = "Completed" /\ Len(f.steps) > 0) =>
              /\ Len(f.run.steps) = Len(f.steps)
              /\ f.run.final_output = f.run.steps[Len(f.steps)].output

\* A successful top-level run of MaxSteps steps whose inputs all differ.
C4_Witness ==
    \E r \in 1..Len(runs) :
        LET f == runs[r][1] IN
        /\ Len(runs[r]) = 1
        /\ f.pc = "returned"
        /\ f.run.state = "Completed"
        /\ Len(f.steps) = MaxSteps
        /\ Len(f.received) = MaxSteps
        /\ \A j, k \in 1..Len(f.received) : j # k => f.received[j].data # f.received[k].data
        /\ f.run.final_output # SomeOf(f.received[MaxSteps].data)

\* C6: events that one task appends one after another receive offsets in
\* that order: of two events of one workflow emitted by the Runtime, the one
\* emitted first (workflow.started before the step events, step k's started
\* before its completed/failed, that before step k+1's started, the
\* workflow's completed/failed last) has the lower offset.
C6_OffsetsFollowEmissionOrder ==
    \A i, j \in TookOffset :
        (i < j /\ tasks[i].workflow_id = tasks[j].workflow_id) =>
            tasks[i].offset < tasks[j].offset

\* C8: a sub-workflow uses the parent's WorkflowContext object: when the
\* top-level workflow has a context, every agent at every depth reads that
\* object, and what an agent wrote on one side of a SubWorkflow step is in
\* the history read later by agents on the other side.
RootHasContext(r) == runs[r][1].context # None

Added(w) == w.chat_history.value[Len(w.chat_history.value)]

C8_SubWorkflowSharesContext ==
    \A j \in 1..Len(ctxlog) :
        LET R == ctxlog[j] IN
        (R.op = "read" /\ RootHasContext(R.run)) =>
            /\ R.context = runs[R.run][1].context
            /\ \A i \in 1..(j - 1) :
                  LET W == ctxlog[i] IN
                  (W.op = "write" /\ W.run = R.run /\ W.depth # R.depth) =>
                      /\ R.chat_history.some
                      /\ Added(W) \in Range(R.chat_history.value)

\* An agent two levels down has read a message of a top-level agent, and an
\* agent of the workflow in between has read a message written below it.
C8_Witness ==
    /\ \E i, j \in 1..Len(ctxlog) :
          /\ i < j
          /\ ctxlog[i].op = "write" /\ ctxlog[i].depth = 1
          /\ ctxlog[j].op = "read" /\ ctxlog[j].depth = 3
          /\ RootHasContext(ctxlog[j].run)
          /\ Added(ctxlog[i]) \in Range(ctxlog[j].chat_history.value)
    /\ \E i, j \in 1..Len(ctxlog) :
          /\ i < j
          /\ ctxlog[i].op = "write" /\ ctxlog[i].depth = 3
          /\ ctxlog[j].op = "read" /\ ctxlog[j].depth = 2
          /\ Added(ctxlog[i]) \in Range(ctxlog[j].chat_history.value)

(***************************************************************************)
(* Properties of the context strategies (SpecPrune).                       *)
(***************************************************************************)
\* C9: for every strategy, configuration and history H, if
\* should_prune(H, estimate_tokens(H)) holds then estimate_tokens of the
\* history prune(H) returns is at most estimate_tokens(H).
C9_PruneNeverGrowsEstimate ==
    (pruner.pc = "pruned" /\ pruner.should_prune) =>
        estimate_tokens(pruner.cfg, pruner.pruned) <= pruner.tokens

\* The leading system messages of a history.
LeadingSystem(H) == SubSeq(H, 1, LeadingSystemCount(H))

\* C10: for TokenBudget, SlidingWindow and MessageType, the history prune(H)
\* returns contains every leading system message of H, in the same order.
C10_LeadingSystemKept ==
    (pruner.pc = "pruned"
     /\ pruner.cfg.strategy \in {"TokenBudget", "SlidingWindow", "MessageType"}) =>
        LET leading == LeadingSystem(pruner.history) IN
        SelectSeq(pruner.pruned, LAMBDA m : m \in Range(leading)) = leading

(***************************************************************************)
(* C11: RetryPolicy::execute invokes the operation exactly once when its   *)
(* first error is non-retryable, exactly max_attempts + 1 times when every *)
(* invocation fails with a retryable error and max_total_duration does not *)
(* elapse, and never again after an invocation that returned Ok.           *)
(***************************************************************************)
RetryOver == retry.pc \in {"returned", "panicked"}

AllRetryable ==
    \A i \in 1..Len(retry.calls) :
        retry.calls[i] # OkResult /\ should_retry(retry.calls[i])

C11_InvocationCounts ==
    retry.pc # "idle" =>
        /\ (Len(retry.calls) >= 1 /\ retry.calls[1] # OkResult
              /\ ~should_retry(retry.calls[1])) => Len(retry.calls) = 1
        /\ (RetryOver /\ AllRetryable /\ ~retry.elapsed) =>
              Len(retry.calls) = retry.policy.max_attempts + 1
        /\ \A i \in 1..Len(retry.calls) :
              retry.calls[i] = OkResult => i = Len(retry.calls)

C11_Witness ==
    /\ RetryOver
    /\ AllRetryable
    /\ ~retry.elapsed
    /\ retry.policy.max_attempts = MaxAttemptsCfg
    /\ Len(retry.calls) = MaxAttemptsCfg + 1
    /\ retry.slept = MaxAttemptsCfg

(***************************************************************************)
(* C12: when step k of a workflow fails, no step after k is executed, the  *)
(* returned run has state Failed, and the run's step records enumerate the *)
(* completed steps 0..k-1 and also the failed step k.                      *)
(***************************************************************************)
C12_FailedRunRecordsFailedStep ==
    \A f \in AllFrames :
        (f.pc = "returned" /\ f.result # NoValue /\ ~f.result.ok) =>
            LET k == f.step_index IN
            /\ Len(f.received) = k + 1
            /\ f.run.state = "Failed"
            /\ Len(f.run.steps) = k + 1
            /\ \A j \in 1..(k + 1) : f.run.steps[j].step_index = j - 1

(***************************************************************************)
(* C13: a workflow's state only moves Pending -> Running -> Completed or   *)
(* Failed and never leaves a terminal state; the returned run is Completed *)
(* if and only if every step returned Ok and Failed otherwise, and its     *)
(* final_output is present exactly when the state is Completed.            *)
(***************************************************************************)
StateMoves == {<<"Pending", "Running">>, <<"Running", "Completed">>,
               <<"Running", "Failed">>}

StatesMoveForward ==
    \A r \in 1..Len(runs) :
        \A d \in 1..Len(runs[r]) :
            (r <= Len(runs') /\ d <= Len(runs'[r])) =>
                \/ runs'[r][d].state = runs[r][d].state
                \/ <<runs[r][d].state, runs'[r][d].state>> \in StateMoves

ReturnedRunsConsistent ==
    \A f \in AllFrames :
        /\ f.pc = "start" <=> f.state = "Pending"
        /\ f.pc = "returned" =>
              /\ f.state = f.run.state
              /\ f.run.state \in {"Completed", "Failed"}
              /\ f.run.state = "Completed" <=>
                    (Len(f.run.steps) = Len(f.steps) /\ Len(f.received) = Len(f.steps))
              /\ f.run.final_output.some <=> f.run.state = "Completed"

C13_WorkflowStateMachine ==
    [][StatesMoveForward /\ ReturnedRunsConsistent /\ ReturnedRunsConsistent']_vars

C13_Witness ==
    \E r \in 1..Len(runs) :
        /\ Len(runs[r]) = 2
        /\ runs[r][2].pc = "returned"
        /\ runs[r][2].state = "Failed"
        /\ runs[r][1].state = "Running"
        /\ Len(runs[r][1].run.steps) = 1

(***************************************************************************)
(* Properties of the agent's failure paths and message order (SpecAgent).  *)
(***************************************************************************)
LastEvents(n) ==
    IF Len(agent.events) >= n
    THEN SubSeq(agent.events, Len(agent.events) - n + 1, Len(agent.events))
    ELSE <<>>

CountEvents(name) == Cardinality({k \in 1..Len(agent.events) : agent.events[k] = name})

LlmFailureReported ==
    (agent.pc # "idle" /\ agent.error = "llm") =>
        /\ agent.pc = "failed"
        /\ LastEvents(2) = <<"AgentLlmRequestFailed", "AgentFailed">>
        /\ CountEvents("AgentFailed") = 1
        /\ agent.error_message = "LLM call failed: " \o agent.llm_error

NothingAfterLlmFailure ==
    (agent.pc # "idle" /\ agent.error = "llm") =>
        /\ agent'.llm_calls = agent.llm_calls
        /\ agent'.registry_calls = agent.registry_calls
        /\ agent'.executed = agent.executed
        /\ agent'.events = agent.events

\* C14: if a model call fails, the agent emits llm_request.failed and then
\* agent.failed, returns an error that carries the model error's message,
\* and makes no further model call and no tool execution in that run.
C14_ModelFailureEndsRun ==
    [][LlmFailureReported' /\ NothingAfterLlmFailure]_vars

\* A model call that fails after an earlier response's tool call was run.
C14_Witness ==
    /\ agent.pc = "failed"
    /\ agent.error = "llm"
    /\ agent.llm_calls = 2
    /\ Len(agent.executed) >= 1

LastMessage(a) == a.messages[Len(a.messages)]

\* The step hands the first pending call to execute_tool_call.
CallExecuted ==
    /\ agent.pc = "dispatch"
    /\ Len(agent'.events) = Len(agent.events) + 2
    /\ agent'.events[Len(agent.events) + 1] = "ToolCallStarted"

UnknownName(tc) == tc.name \notin RegisteredTools

MalformedArguments(tc) == ~IsJson(tc.arguments)

ToolReturnedError == agent'.executed # agent.executed /\ LastEvents(1)' = <<"ToolCallFailed">>

AssistantIndices ==
    {k \in 1..Len(agent.messages) : agent.messages[k].role = "assistant"}

\* How many calls of the assistant message at index k have been handled.
Handled(k) ==
    IF agent.pc = "dispatch" /\ \A j \in AssistantIndices : j <= k
    THEN Len(agent.messages[k].tool_calls) - Len(agent.pending)
    ELSE Len(agent.messages[k].tool_calls)

\* C16: the tool calls of a response are handled one at a time in the order
\* the model returned them; each call, executed, suppressed or failed,
\* appends exactly one tool message with that call's id, in the same order,
\* after the assistant message that carries the calls, and the request of
\* the next model call contains all of them.
C16_ToolMessagesFollowCalls ==
    agent.pc # "idle" =>
        /\ \A k \in AssistantIndices :
              LET calls == agent.messages[k].tool_calls
                  n == Handled(k)
              IN /\ n >= 0
                 /\ Len(agent.messages) >= k + n
                 /\ \A j \in 1..n :
                       /\ agent.messages[k + j].role = "tool"
                       /\ agent.messages[k + j].tool_call_id = calls[j].id
                 /\ Len(agent.messages) > k + n =>
                       agent.messages[k + n + 1].role = "assistant"
                 /\ (agent.pc = "dispatch" /\ \A j \in AssistantIndices : j <= k) =>
                       agent.pending = SubSeq(calls, n + 1, Len(calls))
        /\ \A k \in 1..Len(agent.messages) :
              agent.messages[k].role = "tool" =>
                  \E a \in AssistantIndices :
                      a < k /\ k - a <= Len(agent.messages[a].tool_calls)

\* A response with two calls, one executed and one suppressed, both answered
\* in order in the request of the next model call.
C16_Witness ==
    /\ agent.pc = "calling"
    /\ \E k \in AssistantIndices :
          /\ Len(agent.messages[k].tool_calls) = 2
          /\ Len(agent.messages) = k + 2
          /\ agent.messages[k + 1].content.kind = "result"
          /\ agent.messages[k + 2].content.kind = "loop"

\* C17: when the model returns tool calls on every response, an agent with
\* max_tool_iterations = N fails with an execution error naming the limit
\* after exactly N model calls, and the events of the run contain N
\* llm_request.completed events and exactly one agent.failed event.
C17_LimitFailureEvents ==
    (agent.pc # "idle" /\ agent.error = "max_iterations") =>
        /\ agent.pc = "failed"
        /\ agent.llm_calls = agent.cfg.max_tool_iterations
        /\ agent.error_message =
              "Maximum tool iterations (" \o ToString(agent.cfg.max_tool_iterations)
                  \o ") exceeded"
        /\ CountEvents("AgentLlmRequestCompleted") = agent.cfg.max_tool_iterations
        /\ CountEvents("AgentFailed") = 1

(***************************************************************************)
(* C18: check_for_loop(name, args) returns the result of an earlier        *)
(* record_call if and only if a call with the same tool name and the same  *)
(* arguments was recorded since the tracker was created or cleared, where  *)
(* argument maps with the same key/value pairs count as the same whatever  *)
(* the order of their keys and whichever map instance holds them.          *)
(***************************************************************************)
RecordedSame(name, args) ==
    {k \in 1..Len(tracker.calls) :
        tracker.calls[k].name = name /\ tracker.calls[k].args = args}

C18_CheckFindsRecordedCall ==
    tracker.pc = "checked" =>
        LET c == tracker.checked
            S == RecordedSame(c.name, c.args)
        IN /\ c.returned # NoResult <=> S # {}
           /\ c.returned # NoResult => \E k \in S : c.returned = tracker.calls[k].result

(***************************************************************************)
(* C19: every event emitted while a sub-workflow runs through              *)
(* execute_with_parent (its workflow events and its step events) carries   *)
(* the parent workflow's id in its parent_workflow_id field, and events of *)
(* a top-level run carry none.                                             *)
(***************************************************************************)
EmittedInStep ==
    Range(SubSeq(tasks', Len(tasks) + 1, Len(tasks')))
        \cup Range(SubSeq(private_events', Len(private_events) + 1, Len(private_events')))

C19_EventsCarryParentId ==
    [][\A r \in 1..Len(runs) :
          \A t \in EmittedInStep :
              t.workflow_id = Top(r).workflow_id =>
                  t.parent_workflow_id = Top(r).parent_workflow_id]_vars

(***************************************************************************)
(* C20: if every tool message of a history H has a tool_call_id that       *)
(* matches a tool call of a preceding assistant message in H, the history  *)
(* returned by prune(H) of TokenBudget, SlidingWindow, MessageType and     *)
(* Summarization has the same property: pruning leaves no orphan tool      *)
(* message behind.                                                         *)
(***************************************************************************)
NoOrphanToolMessage(H) ==
    \A i \in 1..Len(H) :
        H[i].role = "tool" =>
            \E j \in 1..(i - 1) : H[i].tool_call_id \in CallIdsOf(H[j])

C20_PruneLeavesNoOrphan ==
    ( /\ pruner.pc = "pruned"
      /\ pruner.cfg.strategy \in {"TokenBudget", "SlidingWindow", "MessageType",
                                  "Summarization"}
      /\ NoOrphanToolMessage(pruner.history) ) =>
        NoOrphanToolMessage(pruner.pruned)

(***************************************************************************)
(* C21: TokenBudget.prune returns the leading system messages of the input *)
(* followed by a suffix of the remaining messages: it removes messages one *)
(* at a time from the oldest non-system message and stops as soon as the   *)
(* token estimate is within the input budget or only min_messages_to_keep  *)
(* of the remaining messages are left.                                     *)
(***************************************************************************)
AfterLeadingSystem(H) == SubSeq(H, LeadingSystemCount(H) + 1, Len(H))

\* The history left when the k oldest non-system messages are removed.
WithoutOldest(H, k) ==
    LeadingSystem(H) \o SubSeq(AfterLeadingSystem(H), k + 1, Len(AfterLeadingSystem(H)))

\* Removing stops at k: the budget is met or the minimum is reached.
StopsAt(cfg, H, k) ==
    \/ TokenBudget_estimate_tokens(WithoutOldest(H, k)) <= cfg.max_input_tokens
    \/ Len(AfterLeadingSystem(H)) - k <= cfg.min_messages_to_keep

LastOf(H, n) == SubSeq(H, Len(H) - Min(n, Len(H)) + 1, Len(H))

C22_SlidingWindowKeepsAtMostN ==
    (pruner.pc = "pruned" /\ pruner.cfg.strategy = "SlidingWindow") =>
        LET H == pruner.history
            N == pruner.cfg.max_messages
        IN IF Len(H) <= N
           THEN pruner.pruned = H
           ELSE /\ pruner.pruned =
                      LeadingSystem(H) \o
                          LastOf(AfterLeadingSystem(H),
                                 saturating_sub(N, LeadingSystemCount(H)))
                /\ Len(pruner.pruned) <= N

(***************************************************************************)
(* C23: Summarization.prune applied to a history with more than            *)
(* keep_recent messages (and over the summarization threshold) returns the *)
(* system messages of the head, then one synthetic summary message, then   *)
(* the last keep_recent messages of the input unchanged and in order;      *)
(* every system message of the input is still present in the output.       *)
(***************************************************************************)
SummarizedHead(cfg, H) == SubSeq(H, 1, Len(H) - cfg.keep_recent_count)

RecentTail(cfg, H) == SubSeq(H, Len(H) - cfg.keep_recent_count + 1, Len(H))

IsSummary(m) == m.role = "system" /\ m.id = 0

C23_SummarizationShape ==
    ( /\ pruner.pc = "pruned"
      /\ pruner.cfg.strategy = "Summarization"
      /\ pruner.should_prune
      /\ Len(pruner.history) > pruner.cfg.keep_recent_count ) =>
        LET H == pruner.history
            P == pruner.pruned
            sys == SelectSeq(SummarizedHead(pruner.cfg, H), LAMBDA m : m.role = "system")
            tail == RecentTail(pruner.cfg, H)
        IN /\ Len(P) = Len(sys) + 1 + Len(tail)
           /\ SubSeq(P, 1, Len(sys)) = sys
           /\ IsSummary(P[Len(sys) + 1])
           /\ SubSeq(P, Len(sys) + 2, Len(P)) = tail
           /\ \A i \in 1..Len(H) : H[i].role = "system" => H[i] \in Range(P)

(***************************************************************************)
(* C24: serialising a WorkflowContext and deserialising the result yields  *)
(* a context whose history (same messages in the same order, including     *)
(* tool calls and tool_call_ids), max_context_tokens and                   *)
(* input_output_ratio equal those of the original, for every context.      *)
(***************************************************************************)
C24_CheckpointRoundTrip ==
    /\ checkpoint.pc \in {"idle", "new", "serialized", "restored"}
    /\ checkpoint.pc = "restored" =>
          /\ checkpoint.restored.chat_history = checkpoint.context.chat_history
          /\ checkpoint.restored.max_context_tokens = checkpoint.context.max_context_tokens
          /\ checkpoint.restored.input_output_ratio = checkpoint.context.input_output_ratio

(***************************************************************************)
(* C25: when RetryPolicy.execute gives up, a non-retryable error is        *)
(* surfaced right after the invocation that produced it (no sleep, no      *)
(* further invocation), and a retry-exhausted error carries the operation  *)
(* name, an attempt count equal to the number of invocations actually      *)
(* made, and the error of the last invocation.                             *)
(***************************************************************************)
GaveUp == retry.pc = "returned" /\ retry.result # OkResult

C25_GiveUpReport ==
    GaveUp =>
        /\ \A i \in 1..Len(retry.calls) :
              ~should_retry(retry.calls[i]) => i = Len(retry.calls)
        /\ ~should_retry(retry.last_error) => retry.slept = Len(retry.calls) - 1
        /\ retry.result.variant = "RetryExhausted" =>
              /\ retry.result.operation = retry.operation_name
              /\ retry.result.attempts = Len(retry.calls)
              /\ retry.result.last_error = retry.calls[Len(retry.calls)]

Streams == <<tasks, private_events>>

CountOn(S, scope, types, cid) ==
    Cardinality({k \in 1..Len(S) :
        S[k].scope = scope /\ S[k].event_type \in types /\ S[k].component_id = cid})

WorkflowIdsOn(S) == {S[k].workflow_id : k \in 1..Len(S)}

StepsStartedOn(S, w) ==
    {i \in 0..MaxSteps : CountOn(S, "WorkflowStep", {"Started"}, StepComponentId(w, i)) > 0}

FramesOf(w) ==
    {f \in UNION {Range(runs[r]) : r \in 1..Len(runs)} : f.workflow_id = w}

RunOver(w) == \A f \in FramesOf(w) : f.pc = "returned"

StepOver(w, i) == \A f \in FramesOf(w) : f.pc = "returned" \/ f.step_index > i

RunEventsOn(S, w) ==
    LET ended == CountOn(S, "Workflow", {"Completed", "Failed"}, IdParts(w))
        failed == CountOn(S, "Workflow", {"Failed"}, IdParts(w))
    IN
    /\ CountOn(S, "Workflow", {"Started"}, IdParts(w)) = 1
    /\ ended = (IF RunOver(w) THEN 1 ELSE 0)
    /\ \A i \in StepsStartedOn(S, w) :
          /\ CountOn(S, "WorkflowStep", {"Started"}, StepComponentId(w, i)) = 1
          /\ CountOn(S, "WorkflowStep", {"Completed", "Failed"}, StepComponentId(w, i))
                = (IF StepOver(w, i) THEN 1 ELSE 0)
    /\ failed = Cardinality({i \in StepsStartedOn(S, w) :
                    CountOn(S, "WorkflowStep", {"Failed"}, StepComponentId(w, i)) = 1})
    /\ \A i \in StepsStartedOn(S, w) :
          CountOn(S, "WorkflowStep", {"Failed"}, StepComponentId(w, i)) = 1 =>
              \A j \in StepsStartedOn(S, w) : j <= i

StoredFrom(o) == {history[k] : k \in {j \in 1..Len(history) : history[j].offset >= o}}

IncreasingOffsets(R) == \A j, k \in 1..Len(R) : j < k => R[j].offset < R[k].offset

C28_FromOffsetSnapshot ==
    [][/\ \A o \in 0..MaxAppends :
             LET R == from_offset(o) IN
             /\ Range(R) = StoredFrom(o)
             /\ Len(R) = Cardinality(StoredFrom(o))
             /\ IncreasingOffsets(R)
             /\ StoredFrom(o) = {} => R = <<>>
       /\ (client.pc = "replayed" /\ client'.pc = "replayed") =>
             client'.replay = client.replay]_vars

(***************************************************************************)
(* C30: before each model call of an agent that has a context manager      *)
(* attached, if the manager's should_prune holds for the current history   *)
(* then the history is replaced by the manager's prune result, so the      *)
(* message list sent on every model call is one for which pruning has      *)
(* already been applied.  The managers are the SlidingWindow managers a    *)
(* workflow is built with; the history is the message list of the run.     *)
(***************************************************************************)
AttachedManagers == {[strategy |-> "SlidingWindow", max_messages |-> n] : n \in 1..MaxHistory}

C30_PrunedBeforeModelCall ==
    [][(agent.pc = "loop" /\ agent'.pc = "calling") =>
          \A cfg \in AttachedManagers :
              agent'.messages =
                  IF should_prune(cfg, agent.messages, 0)
                  THEN prune(cfg, agent.messages)
                  ELSE agent.messages]_vars

(***************************************************************************)
(* C29: no task ever holds two locks at once and no lock is held across a  *)
(* suspension point (model call, tool call, step or sub-workflow           *)
(* execution): the AgentStep holds the context lock only while copying the *)
(* history out and while installing the new history, and EventStream       *)
(* append takes the offset lock and the history lock one after the other,  *)
(* so no interleaving of appends, agents and steps can deadlock.           *)
(***************************************************************************)
HeldBy(p) == {l \in Locks : locking.writer[l] = p \/ p \in locking.readers[l]}

Unfinished == {p \in LockTasks : locking.pc[p] # "done"}

C29_LockDiscipline ==
    locking # LockingIdle =>
        /\ \A p \in LockTasks : Cardinality(HeldBy(p)) <= 1
        /\ \A p \in StepTasks :
              /\ locking.pc[p] = "agent" => HeldBy(p) = {}
              /\ HeldBy(p) # {} =>
                    /\ HeldBy(p) = {"context"}
                    /\ locking.pc[p] \in {"copying", "installing"}
        /\ \A p \in AppendTasks :
              HeldBy(p) # {} =>
                  \/ HeldBy(p) = {"next_offset"} /\ locking.pc[p] = "offset_locked"
                  \/ HeldBy(p) = {"history"} /\ locking.pc[p] = "history_locked"
        /\ Unfinished # {} => ENABLED LocksNext

C29_Witness ==
    /\ locking # LockingIdle
    /\ locking.pc["step_1"] = "agent"
    /\ locking.pc["step_2"] = "installing"
    /\ locking.pc["append_1"] = "history_locked"
    /\ locking.pc["append_2"] = "offset_locked"

(***************************************************************************)
(* C31: a Transform step never reads or changes the workflow context, and  *)
(* a panic inside its transform function is trapped and turned into a step *)
(* error, so the Runtime still returns a run with state Failed and emits   *)
(* the step and workflow failed events.                                    *)
(***************************************************************************)
TransformRuns(r) == Top(r).pc = "execute" /\ Top(r).chosen.type = "Transform"

C31_TransformPanicTrapped ==
    [][\A r \in 1..Len(runs) :
          (TransformRuns(r) /\ runs' # runs) =>
              /\ contexts' = contexts
              /\ ctxlog' = ctxlog
              /\ Top(r)'.pc = "result"]_vars

(***************************************************************************)
(* C32: the event history is append-only and consistent with the offset    *)
(* counter at every moment: len() is never greater than current_offset(),  *)
(* every event in the history has a distinct offset smaller than           *)
(* current_offset(), no event is ever removed or changed once it is in the *)
(* history, and after n appends have completed with none rejected          *)
(* len() = current_offset() = n.                                           *)
(***************************************************************************)
AllAppendsCompleted == \A i \in 1..Len(tasks) : tasks[i].pc = "done"

C32_HistoryAppendOnly ==
    [][/\ Len(history') <= current_offset'
       /\ \A k \in 1..Len(history') : history'[k].offset < current_offset'
       /\ \A j, k \in 1..Len(history') :
             j # k => history'[j].offset # history'[k].offset
       /\ Len(history') >= Len(history)
       /\ SubSeq(history', 1, Len(history)) = history
       /\ AllAppendsCompleted' =>
             /\ Len(history') = Len(tasks')
             /\ current_offset' = Len(tasks')]_vars

C32_Witness ==
    /\ Len(tasks) = MaxAppends
    /\ AllAppendsCompleted
    /\ Len(history) = MaxAppends
    /\ history[1].offset > history[2].offset

(***************************************************************************)
(* C33: with loop detection enabled, a tool call whose arguments are a     *)
(* well-formed JSON object is suppressed only if an earlier tool call in   *)
(* the same agent run had the same tool name and equal arguments; in       *)
(* particular a call with arguments {} is not suppressed because an        *)
(* earlier call to the same tool had unparseable or non-object arguments.  *)
(***************************************************************************)
SuppressionStep ==
    /\ agent.pc = "dispatch"
    /\ agent'.events = Append(agent.events, "AgentToolLoopDetected")

EarlierEqualCall(tc) ==
    \E d \in EmittedCalls :
        /\ d.id < tc.id
        /\ d.name = tc.name
        /\ IsJson(d.arguments) /\ IsJsonObject(d.arguments)
        /\ ObjectOf(d.arguments) = ObjectOf(tc.arguments)

C33_SuppressedOnlyAfterEqualCall ==
    [][(SuppressionStep /\ IsJson(Head(agent.pending).arguments)
                        /\ IsJsonObject(Head(agent.pending).arguments)) =>
           EarlierEqualCall(Head(agent.pending))]_vars

(***************************************************************************)
(* C34: RetryPolicy.execute always invokes the operation at least once and *)
(* always returns Ok or an error value (it never panics), for every        *)
(* configuration, including max_attempts = 0 and a max_total_duration that *)
(* has already elapsed when the first attempt is about to start.           *)
(***************************************************************************)
C34_RetryNeverPanics ==
    /\ retry.pc # "panicked"
    /\ retry.pc \in {"after", "returned"} => Len(retry.calls) >= 1
    /\ retry.pc = "returned" => retry.result.variant \in {"Ok", "RetryExhausted"}

(***************************************************************************)
(* C35: if two AgentSteps that share one WorkflowContext run concurrently  *)
(* (for example two workflows given the same context), then after both     *)
(* have succeeded the context history contains the messages produced by    *)
(* both steps; no step's write-back discards messages another step         *)
(* installed in between its read and its write.                            *)
(***************************************************************************)
SucceededSteps ==
    UNION {{st.step_name : st \in Range(runs[r][1].run.steps)} :
              r \in {q \in 1..Len(runs) : runs[q][1].pc # "start"}}

ProducedIn(H) == {H[k].by : k \in 1..Len(H)}

C35_NoLostUpdate ==
    (Len(runs) = 2 /\ \A r \in 1..2 : runs[r][1].pc = "returned") =>
        SucceededSteps \subseteq ProducedIn(contexts[RootContext])

(***************************************************************************)
(* C36: if the agent run inside an AgentStep fails, the shared             *)
(* WorkflowContext history is exactly what it was before the step started; *)
(* the step replaces the history (with the agent's full updated history)   *)
(* only when the agent succeeded.                                          *)
(***************************************************************************)
AgentStepDone(f) ==
    f.pc = "result" /\ f.chosen.type = "Agent" /\ f.input.workflow_context # None

C36_FailedAgentLeavesContext ==
    \A r \in 1..Len(runs) :
        LET f == Top(r) IN
        AgentStepDone(f) =>
            contexts[f.input.workflow_context] =
                IF f.result.ok
                THEN AgentUpdatedHistory(f.chat_history.value, f.chosen.name)
                ELSE f.chat_history.value

C36_Witness ==
    \E r \in 1..Len(runs) :
        /\ AgentStepDone(Top(r))
        /\ ~Top(r).result.ok
        /\ Len(runs[r]) > 1
        /\ contexts[Top(r).input.workflow_context] # <<>>

(***************************************************************************)
(* C37: for every strategy and every history H, the history returned by    *)
(* prune(H) is, apart from at most one synthetic summary message added by  *)
(* Summarisation, a subsequence of H: each kept message is a message of H, *)
(* no message of H appears more often than it does in H, and the kept      *)
(* messages are in the same relative order as in H.                        *)
(***************************************************************************)
KeptOf(P) == SelectSeq(P, LAMBDA m : ~IsSummary(m))

IsSubsequence(K, H) ==
    /\ \A k \in 1..Len(K) : K[k].id \in 1..Len(H) /\ K[k] = H[K[k].id]
    /\ \A j, k \in 1..Len(K) : j < k => K[j].id < K[k].id

C37_PruneReturnsSubsequence ==
    pruner.pc = "pruned" =>
        /\ Len(pruner.pruned) - Len(KeptOf(pruner.pruned)) <= 1
        /\ Len(KeptOf(pruner.pruned)) < Len(pruner.pruned) =>
              pruner.cfg.strategy = "Summarization"
        /\ IsSubsequence(KeptOf(pruner.pruned), pruner.history)

(***************************************************************************)
(* C38: a SubWorkflow step appends the sub-workflow's events to the event  *)
(* stream of the Runtime that executes the parent workflow wherever the    *)
(* step appears, both as a direct step of the workflow and as the chosen   *)
(* branch of a Conditional step: every sub-workflow run emits on the       *)
(* stream its parent run emits on, and no event reaches another stream.    *)
(***************************************************************************)
C38_SubWorkflowSharesStream ==
    /\ \A r \in 1..Len(runs) : \A d \in 2..Len(runs[r]) :
          runs[r][d].stream = runs[r][d - 1].stream
    /\ private_events = <<>>

(***************************************************************************)
(* C39: if a sub-workflow's run does not end Completed, the SubWorkflow    *)
(* step returns a step error, so the parent run ends Failed at that step   *)
(* and no later parent step executes; this holds at every nesting depth.   *)
(* On every step: a returned sub-run that is not Completed hands its       *)
(* caller an error result for the step that called it; a run holding an    *)
(* error result ends Failed without advancing; a Failed run has started no *)
(* step after the failed one; and a finished top-level run does nothing    *)
(* more.                                                                   *)
(***************************************************************************)
C39_FailedSubWorkflowFailsParent ==
    [][\A r \in 1..Len(runs) :
          LET n == Len(runs[r])
              f == Top(r)
          IN
          /\ (n > 1 /\ f.pc = "returned" /\ f.run.state # "Completed"
                    /\ runs'[r] # runs[r]) =>
                /\ Len(runs'[r]) = n - 1
                /\ Top(r)'.pc = "result"
                /\ ~Top(r)'.result.ok
                /\ Top(r)'.chosen.type = "SubWorkflow"
                /\ Top(r)'.step_index = runs[r][n - 1].step_index
          /\ (f.pc = "result" /\ ~f.result.ok /\ runs'[r] # runs[r]) =>
                /\ Len(runs'[r]) = n
                /\ Top(r)'.pc = "returned"
                /\ Top(r)'.state = "Failed"
                /\ Top(r)'.run.state = "Failed"
                /\ Top(r)'.step_index = f.step_index
                /\ Top(r)'.received = f.received
                /\ Top(r)'.run.steps = f.run.steps
          /\ (f.pc = "returned" /\ f.state = "Failed") =>
                /\ Len(f.received) = f.step_index + 1
                /\ Len(f.run.steps) = f.step_index
          /\ (n = 1 /\ f.pc = "returned") => runs'[r] = runs[r]
      ]_vars

\* A two-step top-level run that ended Failed at its first step, a
\* SubWorkflow, because the agent two levels down failed: the intermediate
\* workflow's own agent never ran, and neither did the second top-level step.
C39_Witness ==
    \E r \in 1..Len(runs) :
        /\ Len(runs[r]) = 1
        /\ Top(r).pc = "returned"
        /\ Top(r).state = "Failed"
        /\ Top(r).chosen.type = "SubWorkflow"
        /\ Top(r).step_index = 0
        /\ Len(Top(r).steps) = 2
        /\ \E k \in 1..Len(ctxlog) : ctxlog[k].step = "grandchild_agent"
        /\ \A k \in 1..Len(ctxlog) : ctxlog[k].step # "child_agent"

(***************************************************************************)
(* C40: in a streamed model response, for every sequence of tool-call      *)
(* fragments addressed by index (a first fragment carrying id and name,    *)
(* later fragments carrying only further argument text), the final         *)
(* response holds one tool call per index whose arguments string is the    *)
(* concatenation, in arrival order, of all argument pieces received for    *)
(* that index.                                                             *)
(***************************************************************************)
\* Every fragment after the first of its index carries only argument text.
OnlyArgumentTextLater(fs) ==
    \A k \in 1..Len(fs) :
        (\E j \in 1..(k - 1) : fs[j].index = fs[k].index) =>
            (~fs[k].id.some /\ ~fs[k].name.some /\ fs[k].arguments.some)

RECURSIVE ArgumentPieces(_, _)
ArgumentPieces(fs, i) ==
    IF fs = <<>> THEN ""
    ELSE (IF Head(fs).index = i /\ Head(fs).arguments.some
          THEN Head(fs).arguments.value ELSE "")
         \o ArgumentPieces(Tail(fs), i)

C40_StreamedArgumentsConcatenated ==
    (llama.pc = "done" /\ OnlyArgumentTextLater(llama.received)) =>
        LET idx == IndicesOf(llama.received) IN
        IF idx = {} THEN ~llama.tool_calls.some
        ELSE /\ llama.tool_calls.some
             /\ Len(llama.tool_calls.value) = Cardinality(idx)
             /\ \A i \in idx :
                   llama.tool_calls.value[i + 1].function.arguments =
                       ArgumentPieces(llama.received, i)

====
